---- MODULE Spec2Model ----
(***************************************************************************)
(* A model of the RTSP engine of rtsp-rs (crates/core): the session        *)
(* manager, the mount registry, the per-connection method handler, the     *)
(* connection worker with its disconnect cleanup, and the RTP fan-out of    *)
(* Server::send_frame_to.                                                   *)
(*                                                                         *)
(* Threads interleave at the granularity of the code's lock-protected and  *)
(* atomic operations: each action is one such operation together with the  *)
(* thread-local code around it.                                            *)
(*                                                                         *)
(* Three specifications share the actions: Spec runs a worker on every     *)
(* connection with a few requests (the races between connections),         *)
(* SpecSolo runs one worker with every request shape, and SpecFanout runs  *)
(* one worker beside the thread that pushes frames.                        *)
(*                                                                         *)
(* Text is modelled as sequences of tokens (strings): a URI is             *)
(* <<"rtsp://", "host", "/", "stream", "/", "track1">>, a session id is    *)
(* sixteen hexadecimal digits. An Option is a sequence of length 0 or 1.   *)
(***************************************************************************)
EXTENDS Integers, Sequences, FiniteSets, TLC

\* ------------------------------------------------------------------ bounds

\* Sessions ever created (a cap on SESSION_COUNTER).
MaxSessions == 2
\* RTP packets in one pushed frame.
MaxPackets == 2

\* The connection workers that may exist at one time.
Conns == {"c1", "c2"}

\* The threads of the lock view: two connection workers, a thread that pushes
\* frames and the thread that configures the server.
LockThreads == {"worker1", "worker2", "pusher", "admin"}

\* ------------------------------------------------------- program constants

SERVER_PORT_MIN == 5000
SERVER_PORT_MAX == 65534
DEFAULT_SESSION_TIMEOUT_SECS == 60
DEFAULT_MOUNT_PATH == <<"/", "stream">>
\* The width of format!("{:016X}", id).
IdWidth == 16
\* The largest value str::parse::<u16> accepts.
U16Max == 65535

None == <<>>
Some(x) == <<x>>

\* ------------------------------------------------------------ session ids

HexDigits == <<"0", "1", "2", "3", "4", "5", "6", "7",
               "8", "9", "A", "B", "C", "D", "E", "F">>

RECURSIVE HexStr(_)
\* The upper-case hexadecimal digits of n, without padding.
HexStr(n) ==
    IF n < 16 THEN <<HexDigits[n + 1]>>
    ELSE HexStr(n \div 16) \o <<HexDigits[(n % 16) + 1]>>

RECURSIVE PadLeft(_, _)
\* s padded on the left with "0" to at least w characters.
PadLeft(s, w) == IF Len(s) >= w THEN s ELSE PadLeft(<<"0">> \o s, w)

\* A faulty formatting that loses the lowest hexadecimal digit of the counter.
FormatIdShifted(n) == PadLeft(HexStr(n \div 16), IdWidth)

\* format!("{:016X}", id)
FormatId(n) == PadLeft(HexStr(n), IdWidth)

\* ------------------------------------------------------------- mount paths

\* The first index of token t in s, or 0.
IndexOf(s, t) ==
    IF \E i \in 1..Len(s) : s[i] = t
    THEN CHOOSE i \in 1..Len(s) : s[i] = t /\ \A j \in 1..(i - 1) : s[j] # t
    ELSE 0

\* Path segments that begin with the text "track".
TrackSegments == {"track1", "track2"}

\* path.rfind("/track"): the index of the "/" of the last "/track..", or 0.
RFindTrack(path) ==
    LET hits == {i \in 1..(Len(path) - 1) :
                    path[i] = "/" /\ path[i + 1] \in TrackSegments}
    IN IF hits = {} THEN 0 ELSE CHOOSE i \in hits : \A j \in hits : j <= i

extract_mount_path(uri) ==
    LET path ==
            IF uri # <<>> /\ uri[1] \in {"rtsp://", "rtsps://"}
            THEN LET after == Tail(uri)
                     slash == IndexOf(after, "/")
                 IN IF slash > 0 THEN SubSeq(after, slash, Len(after))
                    ELSE DEFAULT_MOUNT_PATH
            ELSE IF uri # <<>> /\ uri[1] = "/" THEN uri
            ELSE DEFAULT_MOUNT_PATH
        pos == RFindTrack(path)
    IN IF pos > 0 THEN SubSeq(path, 1, pos - 1) ELSE path

\* The mounts registered before the server starts: the default mount of
\* Server::with_config and one added with add_mount.
MountPaths == {DEFAULT_MOUNT_PATH, <<"/", "cam1">>}

\* The paths an embedding program registers or names as the default.
RegistryPaths == MountPaths \cup {<<"/", "other">>}

\* --------------------------------------------------------- request inputs

\* Request URIs a client sends.
Uris == { <<"rtsp://", "host", "/", "stream", "/", "track1">>,
          <<"rtsp://", "host", "/", "cam1">>,
          <<"rtsp://", "host", "/", "other">> }

\* A Transport header is its ';'-separated parts; a part is a key and, for
\* "client_port=" and "interleaved=", the '-'-separated texts after the '=',
\* each the number it spells, or -1 when it spells no number.
Part(k) == [key |-> k, ports |-> <<>>]
PortPart(k, ps) == [key |-> k, ports |-> ps]

TransportHeaders ==
    { <<Part("RTP/AVP"), Part("unicast"), PortPart("client_port=", <<8000, 8001>>)>>,
      <<Part("RTP/AVP"), PortPart("client_port=", <<9000, 9005>>), Part("unicast")>>,
      <<Part("RTP/AVP/TCP"), Part("unicast"), PortPart("interleaved=", <<0, 1>>)>>,
      <<Part("RTP/AVP"), Part("unicast"), PortPart("client_port=", <<8000, 8001>>),
        PortPart("interleaved=", <<0, 1>>)>>,
      <<Part("RTP/AVP"), Part("unicast")>>,
      <<Part("RTP/AVP"), PortPart("client_port=", <<8000>>)>>,
      <<Part("RTP/AVP"), PortPart("client_port=", <<-1, 8001>>)>>,
      <<Part("RTP/AVP"), PortPart("client_port=", <<8000, 70000>>)>>,
      <<Part("RTP/AVP"), PortPart("client_port=", <<8000>>),
        PortPart("client_port=", <<9000, 9005>>)>> }

\* transport_header.contains("RTP/AVP/TCP") || transport_header.contains("interleaved=")
IsTcpInterleaved(header) ==
    \E i \in 1..Len(header) : header[i].key \in {"RTP/AVP/TCP", "interleaved="}

ParsesAsU16(p) == p >= 0 /\ p <= U16Max

RECURSIVE ParseFrom(_, _)
\* The loop of TransportHeader::parse from part i on.
ParseFrom(header, i) ==
    IF i > Len(header) THEN None
    ELSE IF header[i].key = "client_port=" /\ Len(header[i].ports) = 2
         THEN IF ParsesAsU16(header[i].ports[1]) /\ ParsesAsU16(header[i].ports[2])
              THEN Some([client_rtp_port |-> header[i].ports[1],
                         client_rtcp_port |-> header[i].ports[2]])
              ELSE None
         ELSE ParseFrom(header, i + 1)

TransportHeader_parse(header) == ParseFrom(header, 1)

\* Session header values: the id of a session that may exist, bare, with a
\* timeout suffix, with a blank before the ';', or spelled without padding.
SessionHeaders ==
    { FormatId(n) : n \in 0..(MaxSessions - 1) }
    \cup { FormatId(0) \o <<";", "timeout=60">>,
           FormatId(0) \o <<" ", ";", "timeout=60">>,
           HexStr(0) }

RECURSIVE TrimEnd(_)
TrimEnd(s) == IF s # <<>> /\ s[Len(s)] = " " THEN TrimEnd(SubSeq(s, 1, Len(s) - 1)) ELSE s
RECURSIVE TrimStart(_)
TrimStart(s) == IF s # <<>> /\ s[1] = " " THEN TrimStart(Tail(s)) ELSE s

\* A faulty extraction that keeps the whole header value.
extract_session_id_whole(hdr) == IF hdr = None THEN None ELSE Some(hdr[1])

\* s.split(';').next().unwrap_or(s).trim() over the optional Session header
extract_session_id(hdr) ==
    IF hdr = None THEN None
    ELSE LET s == hdr[1]
             semi == IndexOf(s, ";")
             first == IF semi > 0 THEN SubSeq(s, 1, semi - 1) ELSE s
         IN Some(TrimStart(TrimEnd(first)))

\* The peer address of each connection.
ClientIp(c) == IF c = "c1" THEN "10.0.0.1" ELSE "10.0.0.2"

\* ------------------------------------------------------------------ state

VARIABLES
    running,            \* Server.running
    udp,                \* Server.udp is Some
    default_path,       \* MountRegistry.default_path : Option<path>
    subs,               \* Mount.session_ids of each registered mount
    sessions,           \* the keys of SessionManager.sessions
    objs,               \* the live Session objects, by id: uri, state, transport
    SESSION_COUNTER,    \* the process-wide id counter
    next_server_port,   \* SessionManager.next_server_port
    issued,             \* history: the ids Session::new has issued, in order
    pc,                 \* each connection worker's position
    loc,                \* each worker's local variables
    session_ids,        \* MethodHandler.session_ids of each connection
    resp,               \* the response handle() returned, until it is written
    createdBy,          \* history: the ids created by SETUPs of each connection
    pushPc,             \* the position of the thread calling send_frame_to
    push,               \* its local variables
    delivered,          \* the UDP sends of the current send_frame_to call
    call,               \* history: the last direct call of Mount's interface
    rtpHeader,          \* H264Packetizer.header: the RtpHeader's sequence and timestamp
    out,                \* the packets the last packetize call returned, and its increment
    lastSeq,            \* history: the sequence of the last packet emitted
    tsSum,              \* history: the sum of the increments supplied, modulo 2^32
    frames,             \* the number of packetize calls made
    thr,                \* the threads calling send_frame side by side: position and locals
    wire,               \* history: the calls of udp.send_to, in the order they were made
    alloc,              \* the threads inside allocate_server_ports: position and local rtp
    lastAlloc,          \* history: what allocate_server_ports returned in the step just taken
    ncalls,             \* history: the number of allocate_server_ports calls returned
    reqHeaders,         \* RtspRequest.headers of the request each client sends
    packetizers,        \* the RtpHeader of each registered mount's packetizer
    sps,                \* H264Packetizer.sps : Option<bytes>
    pps,                \* H264Packetizer.pps : Option<bytes>
    nalsSeen,           \* history: the NAL units of every packetize call, in order
    bind_addr,          \* Server.bind_addr
    acceptPc,           \* the position of the accept loop thread
    prog,               \* lock view: the instructions each thread has yet to execute
    holds,              \* lock view: the guards each thread holds, in the order taken
    parked              \* lock view: whether each thread is queued for the lock it requests

vars == <<running, udp, default_path, subs, sessions, objs, SESSION_COUNTER,
          next_server_port, issued, pc, loc, session_ids, resp, createdBy,
          pushPc, push, delivered, call, rtpHeader, out, lastSeq, tsSum, frames,
          thr, wire, alloc, lastAlloc, ncalls, reqHeaders, packetizers,
          sps, pps, nalsSeen, bind_addr, acceptPc, prog, holds, parked>>

serverVars == <<running, udp, default_path>>
pushVars == <<pushPc, push, delivered>>
allocVars == <<SESSION_COUNTER, next_server_port, issued>>
\* The state of the components exercised on their own.
mediaVars == <<rtpHeader, out, lastSeq, tsSum, frames>>
threadVars == <<thr, wire>>
callerVars == <<alloc, lastAlloc, ncalls>>
requestVars == <<reqHeaders, packetizers>>
paramVars == <<sps, pps, nalsSeen>>
configVars == <<bind_addr>>
loopVars == <<acceptPc>>
lockVars == <<prog, holds, parked>>
extVars == <<call, mediaVars, threadVars, callerVars, requestVars, paramVars, configVars, loopVars, lockVars>>

\* A worker's locals: the request being handled (method, uri, th: the optional
\* Transport header, hdr: the optional Session header), the session id in hand,
\* the resolved mount, the parsed client ports, the allocated server ports and
\* the index of cleanup's loop.
NoLoc == [method |-> "", uri |-> <<>>, th |-> None, hdr |-> None, sid |-> <<>>,
          mount |-> <<>>, cp |-> None, sp |-> <<>>, idx |-> 0]
\* A response: its status and its headers. cseq lists the values of its CSeq
\* headers; public, sdp and range tell whether it has a Public header, an SDP
\* body and a Range header.
NoResp == [status |-> 0, session |-> None, transport |-> None, unsupported |-> FALSE,
           cseq |-> <<>>, public |-> FALSE, sdp |-> FALSE, range |-> FALSE,
           rtp_info |-> None]
NoCall == [op |-> "", mount |-> <<>>, id |-> <<>>, present |-> FALSE]
NoPush == [mount |-> <<>>, snap |-> <<>>, idx |-> 0, npackets |-> 0, sent |-> 0,
           steady |-> {}, counted |-> {}]

Range(s) == {s[i] : i \in 1..Len(s)}

\* Positions at which a worker holds an Arc<Session> in a local variable.
HoldingPcs == {"setup_insert", "setup_transport", "setup_subscribe", "play_set", "pause_set"}

Held(pcs, locs) == {locs[c].sid : c \in {d \in Conns : pcs[d] \in HoldingPcs}}

\* A Session is dropped with its last Arc: the objects that stay are those the
\* session table or a worker's local variable refers to.
Retain(o, registered, held) ==
    [id \in (DOMAIN o) \cap (registered \cup held) |-> o[id]]

RtspResponse(code) == [NoResp EXCEPT !.status = code]

\* str::to_ascii_lowercase on the header names clients send
to_ascii_lowercase(name) ==
    CASE name = "CSeq" -> "cseq"
      [] name = "CSEQ" -> "cseq"
      [] name = "User-Agent" -> "user-agent"
      [] OTHER -> name

\* str::eq_ignore_ascii_case
eq_ignore_ascii_case(a, b) == to_ascii_lowercase(a) = to_ascii_lowercase(b)

\* A faulty lookup that compares the names as they are.
get_header_exact(hs, name) ==
    LET found == SelectSeq(hs, LAMBDA h : h[1] = name)
    IN IF found = <<>> THEN None ELSE Some(found[1][2])

\* RtspRequest::get_header on the (name, value) pairs hs: the value of the
\* first header whose name matches.
get_header(hs, name) ==
    LET found == SelectSeq(hs, LAMBDA h : eq_ignore_ascii_case(h[1], name))
    IN IF found = <<>> THEN None ELSE Some(found[1][2])

\* handle(): request.cseq().unwrap_or("0")
handle_cseq(hs) ==
    IF get_header(hs, "CSeq") = None THEN "0" ELSE get_header(hs, "CSeq")[1]

\* response.add_header("CSeq", cseq)
add_cseq(r, cseq) == [r EXCEPT !.cseq = Append(@, cseq)]

\* Session::session_header_value: "<id>;timeout=<timeout_secs>"
session_header_value(id) == [id |-> id, timeout |-> DEFAULT_SESSION_TIMEOUT_SECS]

\* MountRegistry::get on the map mounts, whose keys are the registered paths
get(mounts, path) == IF path \in DOMAIN mounts THEN Some(path) ELSE None

\* MountRegistry::get on the server's registry: subs holds one subscriber list
\* for each entry of the map.
MountGet(path) == get(subs, path)

\* MountRegistry::resolve_from_uri on the map mounts and the optional default
resolve(mounts, default, uri) ==
    LET exact == get(mounts, extract_mount_path(uri))
    IN IF exact # None THEN exact
       ELSE IF default # None THEN get(mounts, default[1])
       ELSE None

\* MountRegistry::resolve_from_uri on the server's registry
resolve_from_uri(uri) == resolve(subs, default_path, uri)

\* HashMap::insert of a new Mount at path: an entry at the same path is
\* replaced, and the new mount has no subscribers.
add(mounts, path) ==
    [m \in (DOMAIN mounts) \cup {path} |-> IF m = path THEN <<>> ELSE mounts[m]]

\* A faulty subscribe that adds nothing.
subscribeNothing(ids, sid) == ids

\* A faulty subscribe that does not look for the id first.
subscribeAlways(ids, sid) == Append(ids, sid)

\* Mount::subscribe on the subscriber list ids
subscribe(ids, sid) == IF sid \in Range(ids) THEN ids ELSE Append(ids, sid)

\* Vec::swap_remove
SwapRemove(s, pos) ==
    LET front == SubSeq(s, 1, Len(s) - 1)
    IN IF pos = Len(s) THEN front ELSE [front EXCEPT ![pos] = s[Len(s)]]

\* Mount::unsubscribe on the subscriber list ids
unsubscribe(ids, sid) ==
    IF sid \in Range(ids) THEN SwapRemove(ids, IndexOf(ids, sid)) ELSE ids

\* MountRegistry::unsubscribe_all
unsubscribe_all(sub, sid) == [m \in DOMAIN sub |-> unsubscribe(sub[m], sid)]

\* A faulty wrap that resets the counter and returns SERVER_PORT_MIN without
\* the second fetch_add.
allocate_no_refetch(n) ==
    IF n > SERVER_PORT_MAX
    THEN [ports |-> <<SERVER_PORT_MIN, SERVER_PORT_MIN + 1>>, next |-> SERVER_PORT_MIN]
    ELSE [ports |-> <<n, n + 1>>, next |-> n + 2]

\* SessionManager::allocate_server_ports on the counter value n: the pair it
\* returns and the counter it leaves.
allocate_server_ports(n) ==
    IF n > SERVER_PORT_MAX
    THEN [ports |-> <<SERVER_PORT_MIN, SERVER_PORT_MIN + 1>>, next |-> SERVER_PORT_MIN + 2]
    ELSE [ports |-> <<n, n + 1>>, next |-> n + 2]

\* ------------------------------------------------------------- RTP header

\* A u64 or u32 is kept as its 16-bit limbs, least significant first.
Limb == U16Max + 1
ZeroU64 == <<0, 0, 0, 0>>

RECURSIVE AddLimbs(_, _, _)
\* The limbs of a + b + carry, as many as a has: the carry out of the last limb
\* is dropped.
AddLimbs(a, b, carry) ==
    IF a = <<>> THEN <<>>
    ELSE LET sum == a[1] + b[1] + carry
         IN <<sum % Limb>> \o AddLimbs(Tail(a), Tail(b), sum \div Limb)

\* increment as u64
as_u64(increment) == increment \o <<0, 0>>

\* timestamp as u32
as_u32(timestamp) == SubSeq(timestamp, 1, 2)

\* u64::wrapping_add
wrapping_add_u64(a, b) == AddLimbs(a, b, 0)

\* RtpHeader::new / with_random_ssrc
RtpHeader_new == [sequence |-> 0, timestamp |-> ZeroU64]

\* A faulty write whose sequence stops at the largest u16.
RtpHeader_write_saturating(h, marker) ==
    [packet |-> [sequence |-> h.sequence, timestamp |-> as_u32(h.timestamp),
                 marker |-> marker],
     header |-> [h EXCEPT !.sequence = IF @ = U16Max THEN U16Max ELSE @ + 1]]

\* RtpHeader::write: the sequence and timestamp fields of the 12 bytes it
\* returns, and the header it leaves.
RtpHeader_write(h, marker) ==
    [packet |-> [sequence |-> h.sequence, timestamp |-> as_u32(h.timestamp),
                 marker |-> marker],
     header |-> [h EXCEPT !.sequence = (@ + 1) % Limb]]

\* RtpHeader::advance_timestamp
advance_timestamp(h, increment) ==
    [h EXCEPT !.timestamp = wrapping_add_u64(@, as_u64(increment))]

RECURSIVE WritePackets(_, _, _)
\* The header writes of packets k..n of a frame, the marker on the last.
WritePackets(h, k, n) ==
    IF k > n THEN [packets |-> <<>>, header |-> h]
    ELSE LET w == RtpHeader_write(h, k = n)
             rest == WritePackets(w.header, k + 1, n)
         IN [packets |-> <<w.packet>> \o rest.packets, header |-> rest.header]

\* A faulty packetize that leaves the timestamp alone after a frame without
\* packets.
packetizeSkipEmpty(h, n, increment) ==
    LET w == WritePackets(h, 1, n)
    IN [packets |-> w.packets,
        header |-> IF n = 0 THEN w.header ELSE advance_timestamp(w.header, increment)]

\* H264Packetizer::packetize of a frame whose NAL units make n packets (none
\* for empty input or input without a start code).
packetize(h, n, increment) ==
    LET w == WritePackets(h, 1, n)
    IN [packets |-> w.packets, header |-> advance_timestamp(w.header, increment)]

NoOut == [packets |-> <<>>, increment |-> <<0, 0>>]

\* The threads of the embedding program that push frames side by side.
Threads == {"t1", "t2"}

\* A thread outside send_frame_to: its locals packets, session_ids (snap), the
\* position idx of the loop over them, the position k of the loop over the
\* packets, sent, and as history the number of its frame and the sessions it
\* counted.
NoThread == [pc |-> "idle", packets |-> <<>>, snap |-> <<>>, idx |-> 0, k |-> 0,
             sent |-> 0, frame |-> 0, counted |-> {}]

\* The sum of two u32 modulo 2^32.
Add32(a, b) ==
    LET lo == a[1] + b[1]
        hi == a[2] + b[2] + (IF lo > U16Max THEN 1 ELSE 0)
    IN <<IF lo > U16Max THEN lo - Limb ELSE lo, IF hi > U16Max THEN hi - Limb ELSE hi>>

\* The threads (connection workers inside handle_setup) that call
\* allocate_server_ports side by side.
Callers == {"a1", "a2"}

\* A thread outside allocate_server_ports.
NoCaller == [pc |-> "idle", rtp |-> 0]

\* rtp as u16
as_u16(rtp) == rtp % Limb

\* Ok((rtp as u16, rtp as u16 + 1)); the counter is even, so the sum does not
\* overflow.
OkPorts(rtp) == [ok |-> TRUE, ports |-> <<as_u16(rtp), as_u16(rtp) + 1>>]

\* The bind address of the servers that take clients.
ValidBindAddr == <<"127.0.0.1", ":", 8554>>

\* The state a program may build before the workers start, with the mounts
\* at paths registered and the bind address addr, but for the packetizer's
\* header.
BuiltAt(default, paths, addr) ==
    /\ bind_addr = addr
    /\ acceptPc = "none"
    /\ prog = [t \in LockThreads |-> <<>>]
    /\ holds = [t \in LockThreads |-> <<>>]
    /\ parked = [t \in LockThreads |-> FALSE]
    /\ running = FALSE
    /\ udp = FALSE
    /\ default_path = default
    /\ subs = [m \in paths |-> <<>>]
    /\ sessions = {}
    /\ objs = [id \in {} |-> 0]
    /\ SESSION_COUNTER = 0
    /\ next_server_port = SERVER_PORT_MIN
    /\ issued = <<>>
    /\ pc = [c \in Conns |-> "closed"]
    /\ loc = [c \in Conns |-> NoLoc]
    /\ session_ids = [c \in Conns |-> <<>>]
    /\ resp = [c \in Conns |-> NoResp]
    /\ createdBy = [c \in Conns |-> {}]
    /\ pushPc = "idle"
    /\ push = NoPush
    /\ delivered = {}
    /\ call = NoCall
    /\ out = NoOut
    /\ lastSeq = None
    /\ frames = 0
    /\ thr = [t \in Threads |-> NoThread]
    /\ wire = <<>>
    /\ alloc = [t \in Callers |-> NoCaller]
    /\ lastAlloc = None
    /\ ncalls = 0
    /\ reqHeaders = [c \in Conns |-> <<>>]
    /\ sps = None
    /\ pps = None
    /\ nalsSeen = <<>>

\* The state a program may build, with a bind address that start accepts.
BuiltRegistry(default, paths) == BuiltAt(default, paths, ValidBindAddr)

\* The server's state with the mounts of MountPaths registered.
BuiltServer(default) == BuiltRegistry(default, MountPaths)

\* The state a program may build before the workers start.
Built(default) ==
    /\ BuiltServer(default)
    /\ packetizers = [m \in MountPaths |-> RtpHeader_new]
    /\ rtpHeader = RtpHeader_new
    /\ tsSum = as_u32(ZeroU64)

\* Server::with_config: the default mount is added and made the fallback.
Init == Built(Some(DEFAULT_MOUNT_PATH))

\* A MountRegistry the embedding program built itself: MountRegistry::new
\* leaves no fallback until set_default is called.
InitEmbedded == \E d \in {None, Some(DEFAULT_MOUNT_PATH)} : Built(d)

\* ----------------------------------------------------------------- server

\* Server::start, with a valid bind address
ServerStart ==
    /\ ~running
    /\ udp' = TRUE
    /\ running' = TRUE
    /\ UNCHANGED <<default_path, subs, sessions, objs, allocVars, pc, loc,
                   session_ids, resp, createdBy, pushVars, extVars>>

\* Server::stop
ServerStop ==
    /\ running
    /\ running' = FALSE
    /\ UNCHANGED <<udp, default_path, subs, sessions, objs, allocVars, pc, loc,
                   session_ids, resp, createdBy, pushVars, extVars>>

\* accept_loop accepts a client and spawns Connection::handle, which builds a
\* MethodHandler with an empty session_ids and enters run().
Accept(c) ==
    /\ running
    /\ pc[c] = "closed"
    /\ pc' = [pc EXCEPT ![c] = "idle"]
    /\ session_ids' = [session_ids EXCEPT ![c] = <<>>]
    /\ createdBy' = [createdBy EXCEPT ![c] = {}]
    /\ UNCHANGED <<serverVars, subs, sessions, objs, allocVars, loc, resp, pushVars, extVars>>

\* ------------------------------------------------------------ connection

\* A faulty worker that ends without cleanup.
AfterRunNoCleanup(c) == "closed"

\* A faulty cleanup that removes the sessions without unsubscribing them.
AfterRunRemoveOnly(c) == IF session_ids[c] = <<>> THEN "closed" ELSE "cleanup_remove"

\* Connection::cleanup starts: it copies session_ids; with none it is done.
AfterRun(c) == IF session_ids[c] = <<>> THEN "closed" ELSE "cleanup_unsub"

\* The worker's locals at position p: cleanup walks the copied list from 1.
LocalsAt(p) == IF p = "cleanup_unsub" THEN [NoLoc EXCEPT !.idx = 1] ELSE NoLoc

\* handle() returns response r for connection c; every return of every handler
\* adds the CSeq header with the value handle() read from the request.
Return(c, r) ==
    /\ resp' = [resp EXCEPT ![c] = add_cseq(r, handle_cseq(reqHeaders[c]))]
    /\ pc' = [pc EXCEPT ![c] = "respond"]

\* run(): the response is written; on a write error, or when the loop then
\* finds the running flag cleared, run() returns and cleanup starts.
WriteResponse(c, written) ==
    /\ pc[c] = "respond"
    /\ resp' = [resp EXCEPT ![c] = NoResp]
    /\ pc' = [pc EXCEPT ![c] = IF written /\ running THEN "idle" ELSE AfterRun(c)]
    /\ loc' = [loc EXCEPT ![c] = LocalsAt(pc'[c])]
    /\ UNCHANGED <<serverVars, subs, sessions, objs, allocVars, session_ids,
                   createdBy, pushVars, extVars>>

\* run(): read_line meets the end of the stream or a read error.
Disconnect(c) ==
    /\ pc[c] = "idle"
    /\ pc' = [pc EXCEPT ![c] = AfterRun(c)]
    /\ loc' = [loc EXCEPT ![c] = LocalsAt(pc'[c])]
    /\ UNCHANGED <<serverVars, subs, sessions, objs, allocVars, session_ids,
                   resp, createdBy, pushVars, extVars>>

\* cleanup: mounts.unsubscribe_all(id) for the next copied id
CleanupUnsubscribe(c) ==
    /\ pc[c] = "cleanup_unsub"
    /\ subs' = unsubscribe_all(subs, session_ids[c][loc[c].idx])
    /\ IF loc[c].idx < Len(session_ids[c])
       THEN /\ loc' = [loc EXCEPT ![c].idx = @ + 1]
            /\ pc' = pc
       ELSE /\ loc' = loc
            /\ pc' = [pc EXCEPT ![c] = "cleanup_remove"]
    /\ UNCHANGED <<serverVars, sessions, objs, allocVars, session_ids, resp,
                   createdBy, pushVars, extVars>>

\* A faulty remove_sessions that removes every session that is not Playing
\* along with the ids.
remove_sessions_idle(registered, ids) ==
    {id \in registered \ Range(ids) : objs[id].state = "Playing"}

\* SessionManager::remove_sessions on the ids
remove_sessions(registered, ids) == registered \ Range(ids)

\* cleanup: session_manager.remove_sessions(&orphaned); the worker ends and
\* its Connection, with the handler's list, is dropped.
CleanupRemove(c) ==
    /\ pc[c] = "cleanup_remove"
    /\ sessions' = remove_sessions(sessions, session_ids[c])
    /\ pc' = [pc EXCEPT ![c] = "closed"]
    /\ loc' = [loc EXCEPT ![c] = NoLoc]
    /\ objs' = Retain(objs, sessions', Held(pc', loc'))
    /\ UNCHANGED <<serverVars, subs, allocVars, session_ids, resp, createdBy, pushVars, extVars>>

\* ------------------------------------------------------------------ SETUP

\* A faulty order of the checks: the Transport header is required first.
SetupStatusTransportFirst(uri, th) ==
    IF th = None THEN 400
    ELSE IF resolve_from_uri(uri) = None THEN 404
    ELSE IF IsTcpInterleaved(th[1]) THEN 461
    ELSE IF TransportHeader_parse(th[1]) = None THEN 400
    ELSE 0

\* The early returns of handle_setup: the status of the error response, or 0
\* when the request passes every check.
SetupStatus(uri, th) ==
    IF resolve_from_uri(uri) = None THEN 404
    ELSE IF th = None THEN 400
    ELSE IF IsTcpInterleaved(th[1]) THEN 461
    ELSE IF TransportHeader_parse(th[1]) = None THEN 400
    ELSE 0

\* handle_setup answers an error.
SetupReject(c, uri, th) ==
    /\ pc[c] = "idle"
    /\ SetupStatus(uri, th) # 0
    /\ Return(c, [RtspResponse(SetupStatus(uri, th)) EXCEPT
                    !.unsupported = (SetupStatus(uri, th) = 461)])
    /\ loc' = [loc EXCEPT ![c] = [NoLoc EXCEPT !.method = "SETUP", !.uri = uri, !.th = th]]
    /\ UNCHANGED <<serverVars, subs, sessions, objs, allocVars, session_ids,
                   createdBy, pushVars, extVars>>

\* handle_setup passes its checks and allocates the server ports.
\* allocate_server_ports never returns Err, so the 500 answer is never given.
SetupBegin(c, uri, th) ==
    /\ pc[c] = "idle"
    /\ SetupStatus(uri, th) = 0
    /\ SESSION_COUNTER + Cardinality({d \in Conns : pc[d] = "setup_new"}) < MaxSessions
    /\ LET a == allocate_server_ports(next_server_port)
       IN /\ next_server_port' = a.next
          /\ loc' = [loc EXCEPT ![c] = [NoLoc EXCEPT
                        !.method = "SETUP",
                        !.uri = uri,
                        !.th = th,
                        !.mount = resolve_from_uri(uri)[1],
                        !.cp = TransportHeader_parse(th[1]),
                        !.sp = a.ports]]
    /\ pc' = [pc EXCEPT ![c] = "setup_new"]
    /\ UNCHANGED <<serverVars, subs, sessions, objs, SESSION_COUNTER, issued,
                   session_ids, resp, createdBy, pushVars, extVars>>

\* Session::new on the counter value n
Session_new(n, uri) ==
    [id |-> FormatId(n), uri |-> uri, transport |-> None, state |-> "Ready"]

\* create_session: Session::new takes the next id.
SetupNew(c) ==
    /\ pc[c] = "setup_new"
    /\ LET s == Session_new(SESSION_COUNTER, loc[c].uri)
       IN /\ SESSION_COUNTER' = SESSION_COUNTER + 1
          /\ issued' = Append(issued, s.id)
          /\ loc' = [loc EXCEPT ![c].sid = s.id]
          /\ createdBy' = [createdBy EXCEPT ![c] = @ \cup {s.id}]
          /\ objs' = (s.id :> [uri |-> s.uri, transport |-> s.transport, state |-> s.state]) @@ objs
    /\ pc' = [pc EXCEPT ![c] = "setup_insert"]
    /\ UNCHANGED <<serverVars, subs, sessions, next_server_port, session_ids,
                   resp, pushVars, extVars>>

\* create_session: the session is inserted into the table.
SetupInsert(c) ==
    /\ pc[c] = "setup_insert"
    /\ sessions' = sessions \cup {loc[c].sid}
    /\ pc' = [pc EXCEPT ![c] = "setup_transport"]
    /\ UNCHANGED <<serverVars, subs, objs, allocVars, loc, session_ids, resp,
                   createdBy, pushVars, extVars>>

\* A faulty Transport whose client address is the client's RTCP port.
SetupTransportRtcpAddr(c) ==
    [client_rtp_port |-> loc[c].cp[1].client_rtp_port,
     client_rtcp_port |-> loc[c].cp[1].client_rtcp_port,
     server_rtp_port |-> loc[c].sp[1],
     server_rtcp_port |-> loc[c].sp[2],
     client_addr |-> [ip |-> ClientIp(c), port |-> loc[c].cp[1].client_rtcp_port]]

\* The Transport handle_setup builds for connection c.
SetupTransportOf(c) ==
    [client_rtp_port |-> loc[c].cp[1].client_rtp_port,
     client_rtcp_port |-> loc[c].cp[1].client_rtcp_port,
     server_rtp_port |-> loc[c].sp[1],
     server_rtcp_port |-> loc[c].sp[2],
     client_addr |-> [ip |-> ClientIp(c), port |-> loc[c].cp[1].client_rtp_port]]

\* session.set_transport(..)
SetupTransport(c) ==
    /\ pc[c] = "setup_transport"
    /\ objs' = [objs EXCEPT ![loc[c].sid].transport = Some(SetupTransportOf(c))]
    /\ pc' = [pc EXCEPT ![c] = "setup_subscribe"]
    /\ UNCHANGED <<serverVars, subs, sessions, allocVars, loc, session_ids, resp,
                   createdBy, pushVars, extVars>>

\* The 200 answer of handle_setup.
SetupOk(c) ==
    [RtspResponse(200) EXCEPT
        !.transport = Some([client_port |-> <<loc[c].cp[1].client_rtp_port,
                                              loc[c].cp[1].client_rtcp_port>>,
                            server_port |-> loc[c].sp]),
        !.session = Some(session_header_value(loc[c].sid))]

\* A faulty push that records the id twice.
PushTwice(ids, sid) == Append(Append(ids, sid), sid)

\* self.session_ids.push(session_id.clone())
PushId(ids, sid) == Append(ids, sid)

\* mount.subscribe(&session_id); self.session_ids.push(..); the 200 answer.
\* The local Arc<Session> is dropped on return.
SetupSubscribe(c) ==
    /\ pc[c] = "setup_subscribe"
    /\ subs' = [subs EXCEPT ![loc[c].mount] = subscribe(@, loc[c].sid)]
    /\ session_ids' = [session_ids EXCEPT ![c] = PushId(@, loc[c].sid)]
    /\ Return(c, SetupOk(c))
    /\ loc' = loc
    /\ objs' = Retain(objs, sessions, Held(pc', loc'))
    /\ UNCHANGED <<serverVars, sessions, allocVars, createdBy, pushVars, extVars>>

\* ------------------------------------------------- PLAY, PAUSE, TEARDOWN

\* SessionManager::get_session
get_session(registered, id) == id \in registered

\* Whether the Session header names a session of the table.
NamesSession(registered, hdr) ==
    IF extract_session_id(hdr) = None THEN FALSE
    ELSE get_session(registered, extract_session_id(hdr)[1])

\* The 454 answer to a request without a usable Session header.
SessionNotFound(c, method, hdr) ==
    /\ Return(c, RtspResponse(454))
    /\ loc' = [loc EXCEPT ![c] = [NoLoc EXCEPT
                  !.method = method,
                  !.hdr = hdr,
                  !.sid = IF extract_session_id(hdr) = None THEN <<>>
                          ELSE extract_session_id(hdr)[1]]]

\* handle_play / handle_pause: no Session header, or get_session finds none.
PlayPauseReject(c, method, hdr) ==
    /\ pc[c] = "idle"
    /\ method \in {"PLAY", "PAUSE"}
    /\ ~NamesSession(sessions, hdr)
    /\ SessionNotFound(c, method, hdr)
    /\ UNCHANGED <<serverVars, subs, sessions, objs, allocVars, session_ids,
                   createdBy, pushVars, extVars>>

\* handle_play / handle_pause: get_session returns the session.
PlayPauseLookup(c, method, hdr) ==
    /\ pc[c] = "idle"
    /\ method \in {"PLAY", "PAUSE"}
    /\ NamesSession(sessions, hdr)
    /\ loc' = [loc EXCEPT ![c] = [NoLoc EXCEPT
                  !.method = method, !.hdr = hdr, !.sid = extract_session_id(hdr)[1]]]
    /\ pc' = [pc EXCEPT ![c] = IF method = "PLAY" THEN "play_set" ELSE "pause_set"]
    /\ UNCHANGED <<serverVars, subs, sessions, objs, allocVars, session_ids,
                   resp, createdBy, pushVars, extVars>>

\* A faulty handle_pause that sets the state handle_play sets.
TargetStatePlaying(method) == "Playing"

\* The state handle_play / handle_pause sets.
TargetState(method) == IF method = "PLAY" THEN "Playing" ELSE "Paused"

\* A faulty peek that gives the sequence number of the last packet sent.
last_sequence(h) == (h.sequence + U16Max) % Limb

\* H264Packetizer::next_sequence: self.header.sequence()
next_sequence(h) == h.sequence

\* H264Packetizer::next_rtp_timestamp: self.header.timestamp() as u32
next_rtp_timestamp(h) == as_u32(h.timestamp)

\* handle_play: the RTP-Info header, added when the session's URI resolves to
\* a mount.
rtp_info(uri) ==
    LET mount == resolve_from_uri(uri)
    IN IF mount = None THEN None
       ELSE Some([url |-> uri,
                  seq |-> next_sequence(packetizers[mount[1]]),
                  rtptime |-> next_rtp_timestamp(packetizers[mount[1]])])

\* The 200 answer of handle_play / handle_pause for the session id, set up
\* with uri.
PlayPauseOk(method, id, uri) ==
    IF method = "PLAY"
    THEN [RtspResponse(200) EXCEPT
            !.session = Some(session_header_value(id)),
            !.range = TRUE,
            !.rtp_info = rtp_info(uri)]
    ELSE [RtspResponse(200) EXCEPT !.session = Some(session_header_value(id))]

\* session.set_state(..) on the session found, and the 200 answer.
PlayPauseSet(c) ==
    /\ pc[c] \in {"play_set", "pause_set"}
    /\ Return(c, PlayPauseOk(loc[c].method, loc[c].sid, objs[loc[c].sid].uri))
    /\ loc' = loc
    /\ objs' = Retain([objs EXCEPT ![loc[c].sid].state = TargetState(loc[c].method)],
                      sessions, Held(pc', loc'))
    /\ UNCHANGED <<serverVars, subs, sessions, allocVars, session_ids, createdBy,
                   pushVars, extVars>>

\* handle_teardown: no Session header, or remove_session finds none.
TeardownReject(c, hdr) ==
    /\ pc[c] = "idle"
    /\ ~NamesSession(sessions, hdr)
    /\ SessionNotFound(c, "TEARDOWN", hdr)
    /\ UNCHANGED <<serverVars, subs, sessions, objs, allocVars, session_ids,
                   createdBy, pushVars, extVars>>

\* SessionManager::remove_session
remove_session(registered, id) == registered \ {id}

\* handle_teardown: remove_session removes the session.
TeardownRemove(c, hdr) ==
    /\ pc[c] = "idle"
    /\ NamesSession(sessions, hdr)
    /\ sessions' = remove_session(sessions, extract_session_id(hdr)[1])
    /\ loc' = [loc EXCEPT ![c] = [NoLoc EXCEPT
                  !.method = "TEARDOWN", !.hdr = hdr, !.sid = extract_session_id(hdr)[1]]]
    /\ pc' = [pc EXCEPT ![c] = "td_unsub"]
    /\ objs' = Retain(objs, sessions', Held(pc', loc'))
    /\ UNCHANGED <<serverVars, subs, allocVars, session_ids, resp, createdBy, pushVars, extVars>>

\* handle_teardown: self.mounts.unsubscribe_all(&session_id)
TeardownUnsubscribe(c) ==
    /\ pc[c] = "td_unsub"
    /\ subs' = unsubscribe_all(subs, loc[c].sid)
    /\ pc' = [pc EXCEPT ![c] = "td_finish"]
    /\ UNCHANGED <<serverVars, sessions, objs, allocVars, loc, session_ids, resp,
                   createdBy, pushVars, extVars>>

\* self.session_ids.retain(|id| id != &session_id)
retain(ids, sid) == SelectSeq(ids, LAMBDA id : id # sid)

\* handle_teardown: the id leaves the connection's list; the 200 answer.
TeardownFinish(c) ==
    /\ pc[c] = "td_finish"
    /\ session_ids' = [session_ids EXCEPT ![c] = retain(@, loc[c].sid)]
    /\ Return(c, RtspResponse(200))
    /\ UNCHANGED <<serverVars, subs, sessions, objs, allocVars, loc, createdBy, pushVars, extVars>>

\* ------------------------------------------------------------ RTP fan-out

\* The sessions streaming from mount m: SETUP has returned for them after
\* resolving their URI to m, they are Playing, and no PAUSE, no TEARDOWN and no
\* disconnect cleanup of theirs has begun.
Established(m) ==
    {id \in sessions :
        /\ objs[id].state = "Playing"
        /\ resolve_from_uri(objs[id].uri) = Some(m)
        /\ \A c \in Conns :
              /\ pc[c] \in {"setup_insert", "setup_transport", "setup_subscribe",
                            "pause_set", "td_unsub", "td_finish"} => loc[c].sid # id
              /\ pc[c] \in {"cleanup_unsub", "cleanup_remove"} =>
                    id \notin Range(session_ids[c])}

\* send_frame_to on a registered mount of a started server: the frame is
\* packetized into n packets (none for a frame without NAL units) and the
\* subscriber list is copied. As history, steady holds the sessions that stream
\* from the mount at every step of the call so far, counted those it counted.
PushStart(m, n) ==
    /\ pushPc = "idle"
    /\ udp
    /\ MountGet(m) # None
    /\ push' = [mount |-> m, snap |-> subs[m], idx |-> 1, npackets |-> n, sent |-> 0,
                steady |-> Established(m), counted |-> {}]
    /\ delivered' = {}
    /\ pushPc' = "fanout"
    /\ UNCHANGED <<serverVars, subs, sessions, objs, allocVars, pc, loc,
                   session_ids, resp, createdBy, extVars>>

\* A faulty fan-out that does not ask is_playing.
ReachedAnyState(registered, o, id) ==
    /\ get_session(registered, id)
    /\ o[id].transport # None

\* Whether the fan-out serves session id: get_session finds it, it is playing
\* and it has a transport.
Reached(registered, o, id) ==
    /\ get_session(registered, id)
    /\ o[id].state = "Playing"
    /\ o[id].transport # None

\* The sends of all packets of the frame to session id.
SendsTo(o, id, n) ==
    {[sid |-> id, addr |-> o[id].transport[1].client_addr, packet |-> k] : k \in 1..n}

\* send_frame_to: one turn of the loop over the copied subscriber list.
PushVisit ==
    /\ pushPc = "fanout"
    /\ push.idx <= Len(push.snap)
    /\ LET id == push.snap[push.idx]
       IN IF Reached(sessions, objs, id)
          THEN /\ delivered' = delivered \cup SendsTo(objs, id, push.npackets)
               /\ push' = [push EXCEPT !.idx = @ + 1, !.sent = @ + 1,
                                       !.steady = @ \cap Established(push.mount),
                                       !.counted = @ \cup {id}]
          ELSE /\ delivered' = delivered
               /\ push' = [push EXCEPT !.idx = @ + 1,
                                       !.steady = @ \cap Established(push.mount)]
    /\ UNCHANGED <<serverVars, subs, sessions, objs, allocVars, pc, loc,
                   session_ids, resp, createdBy, pushPc, extVars>>

\* send_frame_to returns Ok(sent).
PushFinish ==
    /\ pushPc = "fanout"
    /\ push.idx > Len(push.snap)
    /\ pushPc' = "idle"
    /\ push' = NoPush
    /\ delivered' = {}
    /\ UNCHANGED <<serverVars, subs, sessions, objs, allocVars, pc, loc,
                   session_ids, resp, createdBy, extVars>>

\* ------------------------------------- the methods that keep no session

\* The methods handle() dispatches on; the match compares the method as sent.
KnownMethods == {"OPTIONS", "DESCRIBE", "SETUP", "PLAY", "PAUSE", "TEARDOWN",
                 "GET_PARAMETER"}

\* Methods a client may send that handle() has no arm for.
OtherMethods == {"ANNOUNCE", "options"}

\* The headers of the requests a client sends: no CSeq, a CSeq spelled in
\* lower case, one after another header, and two of them.
RequestHeaders ==
    { <<>>,
      << <<"cseq", "2">> >>,
      << <<"User-Agent", "x">>, <<"CSeq", "3">> >>,
      << <<"CSeq", "4">>, <<"CSEQ", "5">> >> }

methodFrame == <<serverVars, subs, sessions, objs, allocVars, session_ids, createdBy,
                 pushVars, extVars>>

\* run(): the next request of the client of c is read; hs are its headers,
\* but for Session and Transport.
ReadHeaders(c, hs) ==
    /\ pc[c] = "idle"
    /\ reqHeaders' = [reqHeaders EXCEPT ![c] = hs]
    /\ UNCHANGED <<serverVars, subs, sessions, objs, allocVars, pc, loc, session_ids,
                   resp, createdBy, pushVars, call, mediaVars, threadVars, callerVars,
                   packetizers, paramVars, configVars, loopVars, lockVars>>

\* handle_options
Options(c) ==
    /\ pc[c] = "idle"
    /\ Return(c, [RtspResponse(200) EXCEPT !.public = TRUE])
    /\ loc' = [loc EXCEPT ![c] = [NoLoc EXCEPT !.method = "OPTIONS"]]
    /\ UNCHANGED methodFrame

\* handle_describe: 404 when the URI resolves to no mount, else the SDP.
Describe(c, uri) ==
    /\ pc[c] = "idle"
    /\ Return(c, IF resolve_from_uri(uri) = None THEN RtspResponse(404)
                 ELSE [RtspResponse(200) EXCEPT !.sdp = TRUE])
    /\ loc' = [loc EXCEPT ![c] = [NoLoc EXCEPT !.method = "DESCRIBE", !.uri = uri]]
    /\ UNCHANGED methodFrame

\* A faulty echo of whatever id the Session header spells.
SessionEchoAny(registered, hdr) == extract_session_id(hdr)

\* handle_get_parameter: the Session header of the answer, the id when the
\* request's Session header names a session of the table.
SessionEcho(registered, hdr) ==
    IF NamesSession(registered, hdr) THEN extract_session_id(hdr) ELSE None

\* handle_get_parameter
GetParameter(c, hdr) ==
    /\ pc[c] = "idle"
    /\ Return(c, [RtspResponse(200) EXCEPT !.session = SessionEcho(sessions, hdr)])
    /\ loc' = [loc EXCEPT ![c] = [NoLoc EXCEPT !.method = "GET_PARAMETER", !.hdr = hdr]]
    /\ UNCHANGED methodFrame

\* handle(): the arm of every other method
NotImplemented(c, method) ==
    /\ pc[c] = "idle"
    /\ method \notin KnownMethods
    /\ Return(c, RtspResponse(501))
    /\ loc' = [loc EXCEPT ![c] = [NoLoc EXCEPT !.method = method]]
    /\ UNCHANGED methodFrame

\* ---------------------------------------------------------- specification

OptionalTransportHeaders == {None} \cup {Some(h) : h \in TransportHeaders}
OptionalSessionHeaders == {None} \cup {Some(h) : h \in SessionHeaders}

\* The SETUP requests of a client: every URI with every Transport header.
SetupRequests == Uris \X OptionalTransportHeaders

\* The requests of clients that run side by side: a SETUP that fails, one for
\* each mount that succeeds, and the bare ids of the sessions that may exist.
RaceSetups ==
    { <<<<"rtsp://", "host", "/", "stream", "/", "track1">>, t>> :
        t \in {None, Some(<<Part("RTP/AVP"), Part("unicast"),
                            PortPart("client_port=", <<8000, 8001>>)>>)} }
    \cup { <<<<"rtsp://", "host", "/", "cam1">>,
             Some(<<Part("RTP/AVP"), PortPart("client_port=", <<9000, 9005>>),
                    Part("unicast")>>)>> }
RaceSessionHeaders == { Some(FormatId(n)) : n \in 0..(MaxSessions - 1) }

\* The steps of the worker of connection c in run() and cleanup(), whose
\* client sends the SETUP requests setups and the Session headers hdrs.
RequestLoop(c, setups, hdrs) ==
    \/ Disconnect(c)
    \/ \E written \in BOOLEAN : WriteResponse(c, written)
    \/ CleanupUnsubscribe(c)
    \/ CleanupRemove(c)
    \/ \E r \in setups : SetupReject(c, r[1], r[2])
    \/ \E r \in setups : SetupBegin(c, r[1], r[2])
    \/ SetupNew(c)
    \/ SetupInsert(c)
    \/ SetupTransport(c)
    \/ SetupSubscribe(c)
    \/ \E method \in {"PLAY", "PAUSE"}, hdr \in hdrs : PlayPauseReject(c, method, hdr)
    \/ \E method \in {"PLAY", "PAUSE"}, hdr \in hdrs : PlayPauseLookup(c, method, hdr)
    \/ PlayPauseSet(c)
    \/ \E hdr \in hdrs : TeardownReject(c, hdr)
    \/ \E hdr \in hdrs : TeardownRemove(c, hdr)
    \/ TeardownUnsubscribe(c)
    \/ TeardownFinish(c)

\* The worker of connection c from the moment the accept loop spawns it.
Worker(c, setups, hdrs) ==
    \/ Accept(c)
    \/ RequestLoop(c, setups, hdrs)

\* A server with clients on every connection.
Next ==
    \/ ServerStart
    \/ ServerStop
    \/ \E c \in Conns : Worker(c, RaceSetups, RaceSessionHeaders)

Spec == Init /\ [][Next]_vars

\* One client that sends every request, to a handler over either registry.
NextSolo ==
    \/ ServerStart
    \/ ServerStop
    \/ Worker("c1", SetupRequests, OptionalSessionHeaders)

SpecSolo == InitEmbedded /\ [][NextSolo]_vars

\* One client that sends requests of every method, with and without a CSeq.
NextMethods ==
    \/ ServerStart
    \/ ServerStop
    \/ Worker("c1", RaceSetups, OptionalSessionHeaders)
    \/ \E hs \in RequestHeaders : ReadHeaders("c1", hs)
    \/ Options("c1")
    \/ \E uri \in Uris : Describe("c1", uri)
    \/ \E hdr \in OptionalSessionHeaders : GetParameter("c1", hdr)
    \/ \E method \in OtherMethods : NotImplemented("c1", method)

SpecMethods == InitEmbedded /\ [][NextMethods]_vars

\* One client, and the thread that pushes frames.
NextFanout ==
    \/ ServerStart
    \/ ServerStop
    \/ Worker("c1", RaceSetups, RaceSessionHeaders)
    \/ \E m \in MountPaths, n \in 0..MaxPackets : PushStart(m, n)
    \/ PushVisit
    \/ PushFinish

SpecFanout == Init /\ [][NextFanout]_vars

\* ------------------------------------------------- Mount's own interface

\* The ids threads pass to a mount directly.
MountIds == { FormatId(n) : n \in 0..MaxSessions }

\* The variables a direct call of a mount leaves alone.
mountFrame == <<serverVars, sessions, objs, allocVars, pc, loc, session_ids, resp,
                createdBy, pushVars, mediaVars, threadVars, callerVars, requestVars, paramVars, configVars, loopVars, lockVars>>

\* Some thread calls mount.subscribe(id); the write lock makes it one step.
MountSubscribe(m, id) ==
    /\ subs' = [subs EXCEPT ![m] = subscribe(@, id)]
    /\ call' = [op |-> "subscribe", mount |-> m, id |-> id,
                present |-> id \in Range(subs[m])]
    /\ UNCHANGED mountFrame

\* Some thread calls mount.unsubscribe(id); the write lock makes it one step.
MountUnsubscribe(m, id) ==
    /\ subs' = [subs EXCEPT ![m] = unsubscribe(@, id)]
    /\ call' = [op |-> "unsubscribe", mount |-> m, id |-> id,
                present |-> id \in Range(subs[m])]
    /\ UNCHANGED mountFrame

\* Threads calling subscribe and unsubscribe on the mounts in any order.
NextMount ==
    \/ \E m \in MountPaths, id \in MountIds : MountSubscribe(m, id)
    \/ \E m \in MountPaths, id \in MountIds : MountUnsubscribe(m, id)

SpecMount == Init /\ [][NextMount]_vars

\* ------------------------------------------------------ the mount registry

\* The URIs passed to resolve_from_uri: those of the clients, one without a
\* path and "*".
ResolveUris == Uris \cup { <<"rtsp://", "host">>, <<"*">> }

registryFrame == <<running, udp, sessions, objs, allocVars, pc, loc, session_ids, resp,
                   createdBy, pushVars, mediaVars, threadVars, callerVars, reqHeaders, paramVars, configVars, loopVars, lockVars>>

\* registry.add(path, packetizer)
RegistryAdd(path) ==
    /\ subs' = add(subs, path)
    /\ packetizers' = [m \in DOMAIN subs' |->
                          IF m = path THEN RtpHeader_new ELSE packetizers[m]]
    /\ call' = [op |-> "add", path |-> path]
    /\ UNCHANGED <<default_path, registryFrame>>

\* registry.set_default(path)
RegistrySetDefault(path) ==
    /\ default_path' = Some(path)
    /\ call' = [op |-> "set_default", path |-> path]
    /\ UNCHANGED <<subs, packetizers, registryFrame>>

\* registry.resolve_from_uri(uri); the history keeps the URI and the result.
RegistryResolve(uri) ==
    /\ call' = [op |-> "resolve_from_uri", uri |-> uri, result |-> resolve_from_uri(uri)]
    /\ UNCHANGED <<subs, default_path, packetizers, registryFrame>>

\* MountRegistry::new: no mount and no default.
InitRegistry ==
    /\ BuiltRegistry(None, {})
    /\ packetizers = [m \in {} |-> RtpHeader_new]
    /\ rtpHeader = RtpHeader_new
    /\ tsSum = as_u32(ZeroU64)

NextRegistry ==
    \/ \E path \in RegistryPaths : RegistryAdd(path)
    \/ \E path \in RegistryPaths : RegistrySetDefault(path)
    \/ \E uri \in ResolveUris : RegistryResolve(uri)

\* A program using a MountRegistry of its own.
SpecRegistry == InitRegistry /\ [][NextRegistry]_vars

\* ------------------------------------------------------ the packetizer

MaxFrames == 3

\* The timestamp increments a caller supplies: a frame period of a 90 kHz
\* clock, and the largest u32.
Increments == { <<3000, 0>>, <<U16Max, U16Max>> }

\* Headers of a packetizer that has been in use: about to wrap the sequence,
\* the low 32 bits of the timestamp, or the whole u64.
UsedHeaders ==
    { [sequence |-> s, timestamp |-> t] :
        s \in {0, U16Max - 1},
        t \in { ZeroU64,
                <<U16Max - 2999, U16Max, 0, 0>>,
                <<U16Max - 2999, U16Max, U16Max, U16Max>> } }

\* packetizer.lock().packetize(data, timestamp_increment): the lock makes the
\* call one step.
Packetize(n, increment) ==
    /\ frames < MaxFrames
    /\ LET r == packetize(rtpHeader, n, increment)
       IN /\ rtpHeader' = r.header
          /\ out' = [packets |-> r.packets, increment |-> increment]
          /\ lastSeq' = IF r.packets = <<>> THEN lastSeq
                        ELSE Some(r.packets[Len(r.packets)].sequence)
    /\ tsSum' = Add32(tsSum, increment)
    /\ frames' = frames + 1
    /\ UNCHANGED <<serverVars, subs, sessions, objs, allocVars, pc, loc, session_ids,
                   resp, createdBy, pushVars, call, threadVars,
                   callerVars, requestVars, paramVars, configVars, loopVars, lockVars>>

InitPacketizer ==
    /\ BuiltServer(Some(DEFAULT_MOUNT_PATH))
    /\ packetizers = [m \in MountPaths |-> RtpHeader_new]
    /\ rtpHeader \in UsedHeaders
    /\ tsSum = as_u32(rtpHeader.timestamp)

NextPacketizer == \E n \in 0..MaxPackets, increment \in Increments : Packetize(n, increment)

\* One packetizer fed frames one after another.
SpecPacketizer == InitPacketizer /\ [][NextPacketizer]_vars

\* ------------------------------------------------ frames pushed side by side

\* The frames pushed in all, and the sends that fail.
MaxPushes == 2
MaxFailures == 1

\* The states of the two sessions a client has set up.
StreamStates == { <<"Playing", "Playing">>, <<"Playing", "Paused">>, <<"Ready", "Playing">> }

\* The server after the client of connection c1 has set up two sessions on the
\* default mount and its PLAY and PAUSE requests have left them in the states st.
Streaming(st) ==
    LET uri == <<"rtsp://", "host", "/", "stream", "/", "track1">>
        first == allocate_server_ports(SERVER_PORT_MIN)
        second == allocate_server_ports(first.next)
        ids == <<FormatId(0), FormatId(1)>>
        transport(sp) ==
            [client_rtp_port |-> 8000, client_rtcp_port |-> 8001,
             server_rtp_port |-> sp[1], server_rtcp_port |-> sp[2],
             client_addr |-> [ip |-> ClientIp("c1"), port |-> 8000]]
    IN /\ running = TRUE
       /\ udp = TRUE
       /\ default_path = Some(DEFAULT_MOUNT_PATH)
       /\ subs = [m \in MountPaths |-> IF m = DEFAULT_MOUNT_PATH THEN ids ELSE <<>>]
       /\ sessions = Range(ids)
       /\ objs = [id \in Range(ids) |->
                    [uri |-> uri,
                     transport |-> Some(transport(IF id = ids[1] THEN first.ports
                                                  ELSE second.ports)),
                     state |-> IF id = ids[1] THEN st[1] ELSE st[2]]]
       /\ SESSION_COUNTER = 2
       /\ next_server_port = second.next
       /\ issued = ids
       /\ pc = [c \in Conns |-> IF c = "c1" THEN "idle" ELSE "closed"]
       /\ loc = [c \in Conns |-> NoLoc]
       /\ session_ids = [c \in Conns |-> IF c = "c1" THEN ids ELSE <<>>]
       /\ resp = [c \in Conns |-> NoResp]
       /\ createdBy = [c \in Conns |-> IF c = "c1" THEN Range(ids) ELSE {}]

\* send_frame: the mount is found and mount.packetize runs under the
\* packetizer's lock; the frame makes n packets.
SendFrameBegin(t, n, increment) ==
    /\ thr[t].pc = "idle"
    /\ udp
    /\ MountGet(DEFAULT_MOUNT_PATH) # None
    /\ frames < MaxPushes
    /\ LET r == packetize(rtpHeader, n, increment)
       IN /\ rtpHeader' = r.header
          /\ out' = [packets |-> r.packets, increment |-> increment]
          /\ lastSeq' = IF r.packets = <<>> THEN lastSeq
                        ELSE Some(r.packets[Len(r.packets)].sequence)
          /\ thr' = [thr EXCEPT ![t] = [NoThread EXCEPT !.pc = "snapshot",
                                                        !.packets = r.packets,
                                                        !.frame = frames + 1]]
    /\ tsSum' = Add32(tsSum, increment)
    /\ frames' = frames + 1
    /\ UNCHANGED <<serverVars, subs, sessions, objs, allocVars, pc, loc, session_ids,
                   resp, createdBy, pushVars, call, wire,
                   callerVars, requestVars, paramVars, configVars, loopVars, lockVars>>

\* mount.subscribed_session_ids(): the list is copied under its read lock.
SendFrameSnapshot(t) ==
    /\ thr[t].pc = "snapshot"
    /\ thr' = [thr EXCEPT ![t].snap = subs[DEFAULT_MOUNT_PATH], ![t].idx = 1,
                          ![t].pc = "visit"]
    /\ UNCHANGED <<serverVars, subs, sessions, objs, allocVars, pc, loc, session_ids,
                   resp, createdBy, pushVars, call, mediaVars, wire,
                   callerVars, requestVars, paramVars, configVars, loopVars, lockVars>>

\* The head of one turn of the loop over the copied list: get_session,
\* is_playing and get_transport. A session that passes is sent the packets and
\* then counted; with no packets it is counted at once.
SendFrameVisit(t) ==
    /\ thr[t].pc = "visit"
    /\ thr[t].idx <= Len(thr[t].snap)
    /\ LET id == thr[t].snap[thr[t].idx]
       IN IF ~Reached(sessions, objs, id)
          THEN thr' = [thr EXCEPT ![t].idx = @ + 1]
          ELSE IF thr[t].packets = <<>>
          THEN thr' = [thr EXCEPT ![t].idx = @ + 1, ![t].sent = @ + 1,
                                  ![t].counted = @ \cup {id}]
          ELSE thr' = [thr EXCEPT ![t].pc = "send", ![t].k = 1]
    /\ UNCHANGED <<serverVars, subs, sessions, objs, allocVars, pc, loc, session_ids,
                   resp, createdBy, pushVars, call, mediaVars, wire,
                   callerVars, requestVars, paramVars, configVars, loopVars, lockVars>>

\* A faulty loop over the packets that gives up on the session, uncounted,
\* when a send fails.
AfterSendGiveUp(l, id, ok) ==
    IF ~ok THEN [l EXCEPT !.pc = "visit", !.idx = @ + 1, !.k = 0]
    ELSE IF l.k < Len(l.packets) THEN [l EXCEPT !.k = @ + 1]
    ELSE [l EXCEPT !.pc = "visit", !.idx = @ + 1, !.k = 0, !.sent = @ + 1,
                   !.counted = @ \cup {id}]

\* The thread's locals after udp.send_to returned for packet k of session id:
\* an Err is logged, and after the last packet sent += 1.
AfterSend(l, id, ok) ==
    IF l.k < Len(l.packets) THEN [l EXCEPT !.k = @ + 1]
    ELSE [l EXCEPT !.pc = "visit", !.idx = @ + 1, !.k = 0, !.sent = @ + 1,
                   !.counted = @ \cup {id}]

\* udp.send_to(packet, transport.client_addr), which succeeds or fails.
SendFramePacket(t, ok) ==
    /\ thr[t].pc = "send"
    /\ ok \/ Len(SelectSeq(wire, LAMBDA e : ~e.ok)) < MaxFailures
    /\ LET id == thr[t].snap[thr[t].idx]
           packet == thr[t].packets[thr[t].k]
       IN /\ wire' = Append(wire, [sid |-> id, frame |-> thr[t].frame,
                                   sequence |-> packet.sequence,
                                   timestamp |-> packet.timestamp, ok |-> ok])
          /\ thr' = [thr EXCEPT ![t] = AfterSend(@, id, ok)]
    /\ UNCHANGED <<serverVars, subs, sessions, objs, allocVars, pc, loc, session_ids,
                   resp, createdBy, pushVars, call, mediaVars,
                   callerVars, requestVars, paramVars, configVars, loopVars, lockVars>>

\* Ok(sent): the thread keeps the result until its next call.
SendFrameReturn(t) ==
    /\ thr[t].pc = "visit"
    /\ thr[t].idx > Len(thr[t].snap)
    /\ thr' = [thr EXCEPT ![t].pc = "idle"]
    /\ UNCHANGED <<serverVars, subs, sessions, objs, allocVars, pc, loc, session_ids,
                   resp, createdBy, pushVars, call, mediaVars, wire,
                   callerVars, requestVars, paramVars, configVars, loopVars, lockVars>>

InitPushers ==
    /\ \E st \in StreamStates : Streaming(st)
    /\ pushPc = "idle"
    /\ push = NoPush
    /\ delivered = {}
    /\ call = NoCall
    /\ rtpHeader = RtpHeader_new
    /\ out = NoOut
    /\ lastSeq = None
    /\ tsSum = as_u32(ZeroU64)
    /\ frames = 0
    /\ thr = [t \in Threads |-> NoThread]
    /\ wire = <<>>
    /\ alloc = [t \in Callers |-> NoCaller]
    /\ lastAlloc = None
    /\ ncalls = 0
    /\ reqHeaders = [c \in Conns |-> <<>>]
    /\ sps = None
    /\ pps = None
    /\ nalsSeen = <<>>
    /\ packetizers = [m \in MountPaths |-> RtpHeader_new]
    /\ bind_addr = ValidBindAddr
    /\ acceptPc = "none"
    /\ prog = [t \in LockThreads |-> <<>>]
    /\ holds = [t \in LockThreads |-> <<>>]
    /\ parked = [t \in LockThreads |-> FALSE]

NextPushers ==
    \/ \E t \in Threads, n \in 0..MaxPackets : SendFrameBegin(t, n, <<3000, 0>>)
    \/ \E t \in Threads : SendFrameSnapshot(t)
    \/ \E t \in Threads : SendFrameVisit(t)
    \/ \E t \in Threads, ok \in BOOLEAN : SendFramePacket(t, ok)
    \/ \E t \in Threads : SendFrameReturn(t)

\* Threads pushing frames to the default mount while two sessions exist.
SpecPushers == InitPushers /\ [][NextPushers]_vars

\* ------------------------------------------------ the server-port allocator

\* The pairs from SERVER_PORT_MIN to SERVER_PORT_MAX.
PortPairs == (SERVER_PORT_MAX - SERVER_PORT_MIN) \div 2 + 1

\* Calls made one after another: enough to pass the end of the range.
MaxCalls == 30271

\* A whole call of allocate_server_ports, no other thread in between.
AllocateCall ==
    /\ ncalls < MaxCalls
    /\ LET a == allocate_server_ports(next_server_port)
       IN /\ next_server_port' = a.next
          /\ lastAlloc' = Some([ok |-> TRUE, ports |-> a.ports])
    /\ ncalls' = ncalls + 1
    /\ UNCHANGED <<serverVars, subs, sessions, objs, SESSION_COUNTER, issued, pc, loc,
                   session_ids, resp, createdBy, pushVars, call, mediaVars, threadVars,
                   alloc, requestVars, paramVars, configVars, loopVars, lockVars>>

NextAllocateInTurn == AllocateCall

\* One thread calling allocate_server_ports of a fresh SessionManager again
\* and again.
SpecAllocateInTurn == Init /\ [][NextAllocateInTurn]_vars

\* let rtp = next_server_port.fetch_add(2): within the range the call returns,
\* beyond it the thread goes on to reset the counter.
AllocFetchStep(t) ==
    /\ alloc[t].pc = "idle"
    /\ next_server_port' = next_server_port + 2
    /\ IF next_server_port > SERVER_PORT_MAX
       THEN /\ alloc' = [alloc EXCEPT ![t] = [pc |-> "store", rtp |-> next_server_port]]
            /\ lastAlloc' = None
       ELSE /\ alloc' = alloc
            /\ lastAlloc' = Some(OkPorts(next_server_port))

\* The step in the view that keeps no history of the calls.
AllocFetch(t) ==
    /\ AllocFetchStep(t)
    /\ UNCHANGED <<serverVars, subs, sessions, objs, SESSION_COUNTER, issued, pc, loc,
                   session_ids, resp, createdBy, pushVars, call, mediaVars, threadVars,
                   ncalls, requestVars, paramVars, configVars, loopVars, lockVars>>

\* next_server_port.store(SERVER_PORT_MIN)
AllocStoreStep(t) ==
    /\ alloc[t].pc = "store"
    /\ next_server_port' = SERVER_PORT_MIN
    /\ alloc' = [alloc EXCEPT ![t].pc = "refetch"]
    /\ lastAlloc' = None

\* The step in the view that keeps no history of the calls.
AllocStore(t) ==
    /\ AllocStoreStep(t)
    /\ UNCHANGED <<serverVars, subs, sessions, objs, SESSION_COUNTER, issued, pc, loc,
                   session_ids, resp, createdBy, pushVars, call, mediaVars, threadVars,
                   ncalls, requestVars, paramVars, configVars, loopVars, lockVars>>

\* let rtp = next_server_port.fetch_add(2); return Ok((rtp as u16, rtp as u16 + 1))
AllocRefetchStep(t) ==
    /\ alloc[t].pc = "refetch"
    /\ next_server_port' = next_server_port + 2
    /\ alloc' = [alloc EXCEPT ![t] = NoCaller]
    /\ lastAlloc' = Some(OkPorts(next_server_port))

\* The step in the view that keeps no history of the calls.
AllocRefetch(t) ==
    /\ AllocRefetchStep(t)
    /\ UNCHANGED <<serverVars, subs, sessions, objs, SESSION_COUNTER, issued, pc, loc,
                   session_ids, resp, createdBy, pushVars, call, mediaVars, threadVars,
                   ncalls, requestVars, paramVars, configVars, loopVars, lockVars>>

NextAllocate ==
    \/ \E t \in Callers : AllocFetch(t)
    \/ \E t \in Callers : AllocStore(t)
    \/ \E t \in Callers : AllocRefetch(t)

\* Threads calling allocate_server_ports of a fresh SessionManager side by side.
SpecAllocate == Init /\ [][NextAllocate]_vars

\* Calls another thread may complete while a thread is inside the function.
MaxOverlap == 2

\* History: the pairs returned by other calls since caller u entered the
\* function.
Seen(u) == IF call.op = "allocate" THEN call.seen[u] ELSE {}

\* The history after a step of caller t: a pair returned is noted for every
\* caller that is inside, and overlapped tells what the calls that ended
\* during the returning call returned.
Noted(t) ==
    IF lastAlloc' = None
    THEN [op |-> "allocate", overlapped |-> {},
          seen |-> [u \in Callers |-> Seen(u)]]
    ELSE [op |-> "allocate", overlapped |-> Seen(t),
          seen |-> [u \in Callers |->
                      IF u # t /\ alloc[u].pc # "idle"
                      THEN Seen(u) \cup {lastAlloc'[1].ports} ELSE {}]]

overlapFrame ==
    <<serverVars, subs, sessions, objs, SESSION_COUNTER, issued, pc, loc,
      session_ids, resp, createdBy, pushVars, mediaVars, threadVars,
      ncalls, requestVars, paramVars, configVars, loopVars, lockVars>>

\* A step of caller t inside allocate_server_ports, with the history.
OverlapStep(t) ==
    /\ \/ /\ \A u \in Callers \ {t} : Cardinality(Seen(u)) < MaxOverlap
          /\ AllocFetchStep(t)
       \/ AllocStoreStep(t)
       \/ AllocRefetchStep(t)
    /\ call' = Noted(t)
    /\ UNCHANGED overlapFrame

NextOverlap == \E t \in Callers : OverlapStep(t)

\* Threads calling allocate_server_ports of a fresh SessionManager side by
\* side, with the pairs of overlapping calls kept.
SpecOverlap == Init /\ [][NextOverlap]_vars

\* ------------------------------------------------- PLAY while frames flow

\* Headers of the mounts' packetizers when the client connects: new, or about
\* to wrap the sequence and the low 32 bits of the timestamp.
PlayHeaders ==
    { RtpHeader_new,
      [sequence |-> U16Max, timestamp |-> <<U16Max - 2999, U16Max, 1, 0>>] }

\* mount.packetize(data, timestamp_increment) on the mount at path m, for a
\* frame that makes n packets: the lock makes the call one step.
MountPacketize(m, n, increment) ==
    /\ frames < MaxPushes
    /\ LET r == packetize(packetizers[m], n, increment)
       IN /\ packetizers' = [packetizers EXCEPT ![m] = r.header]
          /\ out' = [packets |-> r.packets, increment |-> increment]
    /\ frames' = frames + 1
    /\ call' = [op |-> "packetize", mount |-> m]
    /\ UNCHANGED <<serverVars, subs, sessions, objs, allocVars, pc, loc, session_ids,
                   resp, createdBy, pushVars, rtpHeader, lastSeq, tsSum, threadVars,
                   callerVars, reqHeaders, paramVars, configVars, loopVars, lockVars>>

\* A server whose mounts have been fed frames.
InitPlay ==
    /\ BuiltServer(Some(DEFAULT_MOUNT_PATH))
    /\ \E h \in PlayHeaders : packetizers = [m \in MountPaths |-> h]
    /\ rtpHeader = RtpHeader_new
    /\ tsSum = as_u32(ZeroU64)

\* One client, and the thread that feeds the mounts.
NextPlay ==
    \/ ServerStart
    \/ ServerStop
    \/ Worker("c1", RaceSetups, RaceSessionHeaders)
    \/ \E m \in MountPaths, n \in 0..MaxPackets : MountPacketize(m, n, <<3000, 0>>)

SpecPlay == InitPlay /\ [][NextPlay]_vars

\* --------------------------------------------------- H.264 at byte level

DEFAULT_MTU == 1400

\* data[i..i + Len(code)] == code, with the bounds check before it; positions
\* count from 1.
StartsAt(data, i, code) ==
    /\ i + Len(code) - 1 <= Len(data)
    /\ SubSeq(data, i, i + Len(code) - 1) = code

\* extract_nal_units, the scan: the first position from i on at which the
\* loop finds a start code, 0 when it reaches the end without one.
NextStartCode(data, i) ==
    LET hits == {j \in i..Len(data) :
                    StartsAt(data, j, <<0, 0, 0, 1>>) \/ StartsAt(data, j, <<0, 0, 1>>)}
    IN IF hits = {} THEN 0 ELSE CHOOSE j \in hits : \A k \in hits : j <= k

RECURSIVE start_entries(_, _)
\* extract_nal_units, the scan from position i: for every start code the
\* position of the first byte after it and its length, the 4-byte code tried
\* first.
start_entries(data, i) ==
    LET j == NextStartCode(data, i)
    IN IF j = 0 THEN <<>>
       ELSE IF StartsAt(data, j, <<0, 0, 0, 1>>)
            THEN <<[start |-> j + 4, len |-> 4]>> \o start_entries(data, j + 4)
            ELSE <<[start |-> j + 3, len |-> 3]>> \o start_entries(data, j + 3)

\* A faulty end that takes every start code for four bytes long.
nal_end_four(data, entries, idx) ==
    IF idx + 1 <= Len(entries) THEN entries[idx + 1].start - 4 - 1 ELSE Len(data)

\* extract_nal_units: the position of the last byte of the NAL of entry idx.
nal_end(data, entries, idx) ==
    IF idx + 1 <= Len(entries)
    THEN entries[idx + 1].start - entries[idx + 1].len - 1
    ELSE Len(data)

\* H264Packetizer::extract_nal_units
extract_nal_units(data) ==
    LET entries == start_entries(data, 1)
        units == [idx \in 1..Len(entries) |->
                    SubSeq(data, entries[idx].start, nal_end(data, entries, idx))]
    IN SelectSeq(units, LAMBDA nal : nal # <<>>)

\* nal[0] & 0x1f
nal_type(nal) == nal[1] % 32

\* nal_header & 0x60
nri(nal_header) == ((nal_header \div 32) % 4) * 32

\* A faulty limit that forgets the two FU bytes.
max_fragment_whole(mtu) == mtu

\* packetize_nal: self.mtu - 2
max_fragment(mtu) == mtu - 2

\* An RTP packet: the sequence, timestamp and marker of its 12-byte header and
\* the bytes after it.
Packet(w, payload) ==
    [sequence |-> w.packet.sequence, timestamp |-> w.packet.timestamp,
     marker |-> w.packet.marker, payload |-> payload]

RECURSIVE fragment(_, _, _, _, _)
\* packetize_nal, the FU-A loop from offset on: the packets and the header it
\* leaves.
fragment(h, nal, offset, first, is_last_nal) ==
    LET payload == Tail(nal)
        remaining == Len(payload) - offset
        last_fragment == remaining <= max_fragment(DEFAULT_MTU)
        chunk_size == IF max_fragment(DEFAULT_MTU) < remaining
                      THEN max_fragment(DEFAULT_MTU) ELSE remaining
        chunk == SubSeq(payload, offset + 1, offset + chunk_size)
        fu_indicator == nri(nal[1]) + 28
        fu_header == (IF first THEN 128 ELSE 0) + (IF last_fragment THEN 64 ELSE 0)
                        + nal_type(nal)
        w == RtpHeader_write(h, is_last_nal /\ last_fragment)
        rest == fragment(w.header, nal, offset + chunk_size, FALSE, is_last_nal)
    IN IF offset < Len(payload)
       THEN [packets |-> <<Packet(w, <<fu_indicator, fu_header>> \o chunk)>> \o rest.packets,
             header |-> rest.header]
       ELSE [packets |-> <<>>, header |-> h]

\* H264Packetizer::packetize_nal
packetize_nal(h, nal, is_last_nal) ==
    IF nal = <<>> THEN [packets |-> <<>>, header |-> h]
    ELSE IF Len(nal) <= DEFAULT_MTU
         THEN LET w == RtpHeader_write(h, is_last_nal)
              IN [packets |-> <<Packet(w, nal)>>, header |-> w.header]
         ELSE fragment(h, nal, 0, TRUE, is_last_nal)

RECURSIVE packetize_nals(_, _, _)
\* packetize: the loop over the NAL units from the i-th on.
packetize_nals(h, nals, i) ==
    IF i > Len(nals) THEN [packets |-> <<>>, header |-> h]
    ELSE LET r == packetize_nal(h, nals[i], i = Len(nals))
             rest == packetize_nals(r.header, nals, i + 1)
         IN [packets |-> r.packets \o rest.packets, header |-> rest.header]

\* A faulty capture that keeps the latest parameter set.
capture_latest(held, nal, type) ==
    IF nal_type(nal) = type THEN Some(nal) ELSE held

\* packetize: a NAL of the type is copied when none is held.
capture(held, nal, type) ==
    IF nal_type(nal) = type /\ held = None THEN Some(nal) ELSE held

RECURSIVE capture_all(_, _, _)
\* packetize: the capture loop over the NAL units, for the SPS (type 7) or
\* the PPS (type 8).
capture_all(held, nals, type) ==
    IF nals = <<>> THEN held
    ELSE capture_all(capture(held, nals[1], type), Tail(nals), type)

\* H264Packetizer::packetize on the bytes of a frame: the packets, the header
\* and the parameter sets it leaves.
packetize_data(h, held_sps, held_pps, data, increment) ==
    LET nals == extract_nal_units(data)
        r == packetize_nals(h, nals, 1)
    IN [nals |-> nals,
        sps |-> capture_all(held_sps, nals, 7),
        pps |-> capture_all(held_pps, nals, 8),
        packets |-> r.packets,
        header |-> advance_timestamp(r.header, increment)]

\* format!("{:02x}", byte)
LowerHex ==
    <<"0", "1", "2", "3", "4", "5", "6", "7", "8", "9", "a", "b", "c", "d", "e", "f">>
Hex02(byte) == <<LowerHex[(byte \div 16) + 1], LowerHex[(byte % 16) + 1]>>

\* The alphabet of BASE64_STANDARD.
Base64Alphabet ==
    <<"A", "B", "C", "D", "E", "F", "G", "H", "I", "J", "K", "L", "M", "N", "O", "P",
      "Q", "R", "S", "T", "U", "V", "W", "X", "Y", "Z", "a", "b", "c", "d", "e", "f",
      "g", "h", "i", "j", "k", "l", "m", "n", "o", "p", "q", "r", "s", "t", "u", "v",
      "w", "x", "y", "z", "0", "1", "2", "3", "4", "5", "6", "7", "8", "9", "+", "/">>

RECURSIVE Base64(_)
\* BASE64_STANDARD.encode: four characters for every three bytes, padded
\* with "=".
Base64(bytes) ==
    LET b1 == bytes[1]
        b2 == IF Len(bytes) >= 2 THEN bytes[2] ELSE 0
        b3 == IF Len(bytes) >= 3 THEN bytes[3] ELSE 0
        c1 == Base64Alphabet[(b1 \div 4) + 1]
        c2 == Base64Alphabet[((b1 % 4) * 16 + (b2 \div 16)) + 1]
        c3 == Base64Alphabet[((b2 % 16) * 4 + (b3 \div 64)) + 1]
        c4 == Base64Alphabet[(b3 % 64) + 1]
    IN IF bytes = <<>> THEN <<>>
       ELSE IF Len(bytes) = 1 THEN <<c1, c2, "=", "=">>
       ELSE IF Len(bytes) = 2 THEN <<c1, c2, c3, "=">>
       ELSE <<c1, c2, c3, c4>> \o Base64(SubSeq(bytes, 4, Len(bytes)))

\* H264Packetizer::get_profile_level_id: the SPS bytes 1 to 3 in hexadecimal,
\* None for the Err.
get_profile_level_id(held_sps) ==
    IF held_sps = None THEN None
    ELSE IF Len(held_sps[1]) < 4 THEN None
    ELSE Some(Hex02(held_sps[1][2]) \o Hex02(held_sps[1][3]) \o Hex02(held_sps[1][4]))

\* H264Packetizer::get_sprop_parameter_sets, None for the Err.
get_sprop_parameter_sets(held_sps, held_pps) ==
    IF held_sps = None \/ held_pps = None THEN None
    ELSE Some(Base64(held_sps[1]) \o <<",">> \o Base64(held_pps[1]))

\* H264Packetizer::sdp_attributes for the payload type pt, spelled in decimal:
\* the attribute lines, each the pieces it is formatted from.
sdp_attributes(pt, held_sps, held_pps) ==
    LET pl == get_profile_level_id(held_sps)
        sprop == get_sprop_parameter_sets(held_sps, held_pps)
        fmtp == <<"a=fmtp:", pt, " packetization-mode=1">>
                \o (IF pl # None THEN <<";profile-level-id=">> \o pl[1] ELSE <<>>)
                \o (IF sprop # None THEN <<";sprop-parameter-sets=">> \o sprop[1]
                    ELSE <<>>)
    IN << <<"a=rtpmap:", pt, " ", "H264", "/", "90000">>,
          fmtp,
          <<"a=control:track1">> >>

\* A NAL unit of len bytes that starts with nal_header and holds no zero.
Nal(nal_header, len) ==
    [i \in 1..len |-> IF i = 1 THEN nal_header ELSE ((i * 7) % 255) + 1]

SC3 == <<0, 0, 1>>
SC4 == <<0, 0, 0, 1>>
SpsA == <<103, 66, 0, 31>>
SpsB == <<103, 100>>
PpsA == <<104, 206>>
PpsB == <<104, 238, 60>>

\* The frames pushed: no byte, no start code, parameter sets and slices behind
\* start codes of both lengths, a start code with nothing behind it, a NAL
\* that ends in a zero byte, and NALs of DEFAULT_MTU bytes and more.
FrameData ==
    { <<>>,
      <<255, 254>>,
      SC4 \o SpsA \o SC3 \o PpsA \o SC4 \o <<101, 170, 187>>,
      SC3 \o SpsB \o SC4 \o PpsB,
      SC3 \o SpsA,
      SC4 \o PpsB \o SC3 \o PpsA \o SC3 \o SpsB \o SC3 \o SpsA,
      <<9, 0>> \o SC3 \o <<65, 1, 0, 2>> \o SC4 \o SC3 \o <<65, 3>> \o SC4,
      SC4 \o <<101, 170, 0>> \o SC3 \o <<65, 1>>,
      SC4 \o Nal(101, DEFAULT_MTU),
      SC3 \o Nal(101, DEFAULT_MTU + 1),
      SC4 \o Nal(65, 2 * DEFAULT_MTU - 3) \o SC3 \o SC4 \o <<65, 1>>,
      SC3 \o Nal(37, 2 * DEFAULT_MTU - 2) }

\* The payload type the packetizers are made with.
PayloadType == "96"

h264Frame == <<serverVars, subs, sessions, objs, allocVars, pc, loc, session_ids, resp,
               createdBy, pushVars, lastSeq, tsSum, threadVars, callerVars,
               requestVars, configVars, loopVars, lockVars>>

\* packetizer.packetize(data, timestamp_increment)
H264Packetize(data, increment) ==
    /\ frames < MaxPushes
    /\ LET r == packetize_data(rtpHeader, sps, pps, data, increment)
       IN /\ rtpHeader' = r.header
          /\ sps' = r.sps
          /\ pps' = r.pps
          /\ nalsSeen' = nalsSeen \o r.nals
          /\ out' = [packets |-> r.packets, increment |-> increment,
                     data |-> data, nals |-> r.nals]
    /\ frames' = frames + 1
    /\ call' = [op |-> "packetize"]
    /\ UNCHANGED h264Frame

\* packetizer.sdp_attributes(); the history keeps the result.
SdpAttributes ==
    /\ call' = [op |-> "sdp_attributes",
                result |-> sdp_attributes(PayloadType, sps, pps)]
    /\ UNCHANGED <<h264Frame, rtpHeader, out, frames, paramVars>>

NextH264 ==
    \/ \E data \in FrameData : H264Packetize(data, <<3000, 0>>)
    \/ SdpAttributes

\* One H.264 packetizer fed frames, its SDP attributes read in between.
SpecH264 == Init /\ [][NextH264]_vars

\* ------------------------------------------------------- start and stop

\* A bind address is its host and, behind a ':', the number its port spells,
\* -1 when it spells none.
BindHosts == {"127.0.0.1", "0.0.0.0", "[::1]", "localhost", ""}
BindPorts == {0, 1, 554, 8554, U16Max, U16Max + 1, -1}
BindAddrs == { <<host>> : host \in BindHosts }
             \cup { <<host, ":", port>> : host \in BindHosts, port \in BindPorts }

\* str::parse::<SocketAddr>: an IPv4 literal or a bracketed IPv6 literal, a
\* ':' and a u16; a host name does not parse.
SocketAddr_parse(addr) ==
    IF Len(addr) = 3
    THEN IF addr[1] \in {"127.0.0.1", "0.0.0.0", "[::1]"} /\ addr[3] \in 0..U16Max
         THEN Some([ip |-> addr[1], port |-> addr[3]])
         ELSE None
    ELSE None

\* What the sockets do when start binds them.
BindOutcomes == {"ok", "udp_fails", "tcp_fails"}

\* A faulty start that binds the UDP socket before it looks at the address.
start_bind_first(is_running, has_udp, addr, io) ==
    IF is_running
    THEN [result |-> "AlreadyRunning", running |-> is_running, udp |-> has_udp,
          spawned |-> FALSE]
    ELSE IF io = "udp_fails"
    THEN [result |-> "Io", running |-> is_running, udp |-> has_udp, spawned |-> FALSE]
    ELSE IF SocketAddr_parse(addr) = None
    THEN [result |-> "InvalidBindAddress", running |-> is_running, udp |-> TRUE,
          spawned |-> FALSE]
    ELSE IF SocketAddr_parse(addr)[1].port = 0
    THEN [result |-> "InvalidBindAddress", running |-> is_running, udp |-> TRUE,
          spawned |-> FALSE]
    ELSE IF io = "tcp_fails"
    THEN [result |-> "Io", running |-> is_running, udp |-> TRUE, spawned |-> FALSE]
    ELSE [result |-> "Ok", running |-> TRUE, udp |-> TRUE, spawned |-> TRUE]

\* Server::start: what it returns, the running flag and whether a UDP sender
\* is held afterwards, and whether an accept loop was spawned.
start(is_running, has_udp, addr, io) ==
    IF is_running
    THEN [result |-> "AlreadyRunning", running |-> is_running, udp |-> has_udp,
          spawned |-> FALSE]
    ELSE IF SocketAddr_parse(addr) = None
    THEN [result |-> "InvalidBindAddress", running |-> is_running, udp |-> has_udp,
          spawned |-> FALSE]
    ELSE IF SocketAddr_parse(addr)[1].port = 0
    THEN [result |-> "InvalidBindAddress", running |-> is_running, udp |-> has_udp,
          spawned |-> FALSE]
    ELSE IF io = "udp_fails"
    THEN [result |-> "Io", running |-> is_running, udp |-> has_udp, spawned |-> FALSE]
    ELSE IF io = "tcp_fails"
    THEN [result |-> "Io", running |-> is_running, udp |-> TRUE, spawned |-> FALSE]
    ELSE [result |-> "Ok", running |-> TRUE, udp |-> TRUE, spawned |-> TRUE]

lifecycleFrame == <<default_path, subs, sessions, objs, allocVars, pc, loc, session_ids,
                    resp, createdBy, pushVars, mediaVars, threadVars, callerVars,
                    requestVars, paramVars, configVars, loopVars, lockVars>>

\* server.start(); the history keeps what it returned and whether it spawned
\* an accept loop.
Start(io) ==
    /\ LET r == start(running, udp, bind_addr, io)
       IN /\ running' = r.running
          /\ udp' = r.udp
          /\ call' = [op |-> "start", result |-> r.result, spawned |-> r.spawned]
    /\ UNCHANGED lifecycleFrame

\* server.stop()
Stop ==
    /\ running' = FALSE
    /\ call' = [op |-> "stop"]
    /\ UNCHANGED <<udp, lifecycleFrame>>

\* Server::new(bind_addr)
InitLifecycle ==
    /\ \E addr \in BindAddrs : BuiltAt(Some(DEFAULT_MOUNT_PATH), MountPaths, addr)
    /\ packetizers = [m \in MountPaths |-> RtpHeader_new]
    /\ rtpHeader = RtpHeader_new
    /\ tsSum = as_u32(ZeroU64)

NextLifecycle ==
    \/ \E io \in BindOutcomes : Start(io)
    \/ Stop

\* A server that is started and stopped, whatever its bind address.
SpecLifecycle == InitLifecycle /\ [][NextLifecycle]_vars

\* ------------------------------------------------------ send_rtp_packet

\* The lengths of the pre-built packets the application hands over.
PayloadLens == {12}

\* A faulty send_rtp_packet that asks for the transport before the state.
send_rtp_packet_transport_first(has_udp, registered, o, id, len, ok) ==
    IF ~has_udp THEN [result |-> "NotStarted", sent |-> {}]
    ELSE IF ~get_session(registered, id) THEN [result |-> "SessionNotFound", sent |-> {}]
    ELSE IF o[id].transport = None THEN [result |-> "TransportNotConfigured", sent |-> {}]
    ELSE IF o[id].state # "Playing" THEN [result |-> "SessionNotPlaying", sent |-> {}]
    ELSE IF ~ok THEN [result |-> "Io", sent |-> {}]
    ELSE [result |-> "Ok",
          sent |-> {[sid |-> id, addr |-> o[id].transport[1].client_addr, len |-> len]}]

\* Server::send_rtp_packet: what it returns and the datagrams udp.send_to sent,
\* each with its length, which Ok carries; ok is whether the socket takes the
\* datagram.
send_rtp_packet(has_udp, registered, o, id, len, ok) ==
    IF ~has_udp THEN [result |-> "NotStarted", sent |-> {}]
    ELSE IF ~get_session(registered, id) THEN [result |-> "SessionNotFound", sent |-> {}]
    ELSE IF o[id].state # "Playing" THEN [result |-> "SessionNotPlaying", sent |-> {}]
    ELSE IF o[id].transport = None THEN [result |-> "TransportNotConfigured", sent |-> {}]
    ELSE IF ~ok THEN [result |-> "Io", sent |-> {}]
    ELSE [result |-> "Ok",
          sent |-> {[sid |-> id, addr |-> o[id].transport[1].client_addr, len |-> len]}]

\* All the state but the history of the last call.
sendFrame == <<serverVars, subs, sessions, objs, allocVars, pc, loc, session_ids, resp,
               createdBy, pushVars, mediaVars, threadVars, callerVars, requestVars,
               paramVars, configVars, loopVars, lockVars>>

\* server.send_rtp_packet(id, payload) from the application's thread.
SendRtpPacket(id, len, ok) ==
    /\ LET r == send_rtp_packet(udp, sessions, objs, id, len, ok)
       IN call' = [op |-> "send_rtp_packet", id |-> id, result |-> r.result,
                   sent |-> r.sent]
    /\ UNCHANGED sendFrame

\* A second client that only sends PLAY and PAUSE for the sessions of others.
Player(c) ==
    \/ Accept(c)
    \/ \E written \in BOOLEAN : WriteResponse(c, written)
    \/ \E method \in {"PLAY", "PAUSE"}, hdr \in RaceSessionHeaders :
          PlayPauseLookup(c, method, hdr)
    \/ PlayPauseSet(c)

NextSendPacket ==
    \/ ServerStart
    \/ ServerStop
    \/ Worker("c1", RaceSetups, RaceSessionHeaders)
    \/ Player("c2")
    \/ \E id \in MountIds, len \in PayloadLens, ok \in BOOLEAN : SendRtpPacket(id, len, ok)

\* A client that sets sessions up, one that plays and pauses them, and the
\* application sending packets to them.
SpecSendPacket == Init /\ [][NextSendPacket]_vars

\* -------------------------------------------- send_frame_to as one call

\* A faulty send_frame_to that does not ask for the UDP sender first.
send_frame_to_unstarted(has_udp, mounts, path) ==
    IF get(mounts, path) = None THEN "MountNotFound" ELSE "Ok"

\* Server::send_frame_to up to the mount: the error it returns, or Ok when it
\* goes on to packetize.
send_frame_to(has_udp, mounts, path) ==
    IF ~has_udp THEN "NotStarted"
    ELSE IF get(mounts, path) = None THEN "MountNotFound"
    ELSE "Ok"

\* The sessions a call that found the mount at path serves.
Served(path) == {id \in Range(subs[path]) : Reached(sessions, objs, id)}

\* server.send_frame_to(path, data, increment) for a frame that makes n
\* packets, as one step; the history keeps what it returned and the sends.
SendFrameTo(path, n, increment) ==
    /\ LET result == send_frame_to(udp, subs, path)
       IN IF result = "Ok"
          THEN /\ frames < MaxPushes
               /\ frames' = frames + 1
               /\ packetizers' = [packetizers EXCEPT
                                     ![path] = packetize(@, n, increment).header]
               /\ call' = [op |-> "send_frame_to", path |-> path, result |-> result,
                           count |-> Cardinality(Served(path)),
                           sent |-> UNION {SendsTo(objs, id, n) : id \in Served(path)}]
          ELSE /\ call' = [op |-> "send_frame_to", path |-> path, result |-> result,
                           count |-> 0, sent |-> {}]
               /\ UNCHANGED <<frames, packetizers>>
    /\ UNCHANGED <<serverVars, subs, sessions, objs, allocVars, pc, loc, session_ids,
                   resp, createdBy, pushVars, rtpHeader, out, lastSeq, tsSum, threadVars,
                   callerVars, reqHeaders, paramVars, configVars, loopVars, lockVars>>

NextSendFrame ==
    \/ ServerStart
    \/ ServerStop
    \/ Worker("c1", RaceSetups, RaceSessionHeaders)
    \/ \E path \in RegistryPaths, n \in 0..1 : SendFrameTo(path, n, <<3000, 0>>)

\* One client, and the application sending frames to paths with and without
\* a mount.
SpecSendFrame == Init /\ [][NextSendFrame]_vars

\* ------------------------------------------------- requests that fail to parse

\* The text of a request is its lines up to the blank line, each line the
\* tokens it is made of: words, " " for a run of whitespace, ":" for a colon.
RawRequests ==
    { <<<<"OPTIONS", " ", "*", " ", "RTSP/1.0">>, <<"CSeq", ":", " ", "1">>>>,
      <<<<"PLAY", " ", " ", "rtsp://host/stream", " ", "RTSP/2.0">>,
        <<" ", "cseq", " ", ":", "2", " ">>, <<"User-Agent", ":", "x">>>>,
      <<<<"OPTIONS", " ", "*">>, <<"CSeq", ":", " ", "1">>>>,
      <<<<"PLAY", " ", "rtsp://host/stream", " ", "RTSP/1.0", " ", "x">>>>,
      <<<<" ">>, <<"CSeq", ":", "3">>>>,
      <<<<"PLAY", " ", "rtsp://host/stream", " ", "RTSP/1.0">>, <<"CSeq", " ", "7">>>>,
      <<<<"SETUP", " ", "rtsp://host/stream", " ", "RTSP/1.0">>,
        <<"CSeq", ":", "4">>, <<"Transport">>>> }

\* str::split_whitespace
split_whitespace(line) == SelectSeq(line, LAMBDA t : t # " ")

\* str::find(':'): the position of the first colon, 0 for None.
find_colon(line) ==
    IF \E i \in 1..Len(line) : line[i] = ":"
    THEN CHOOSE i \in 1..Len(line) : line[i] = ":" /\ \A j \in 1..(i - 1) : line[j] # ":"
    ELSE 0

\* str::trim on a piece of a header line; the pieces clients send hold one
\* word at most, which is the text that remains.
trim(piece) ==
    LET words == split_whitespace(piece)
    IN IF words = <<>> THEN "" ELSE words[1]

\* The headers of the lines from position i on: Err at the first line without
\* a colon.
RECURSIVE parse_headers(_, _, _)
parse_headers(raw, i, acc) ==
    IF i > Len(raw) THEN [ok |-> TRUE, headers |-> acc, kind |-> ""]
    ELSE IF find_colon(raw[i]) = 0
    THEN [ok |-> FALSE, headers |-> <<>>, kind |-> "InvalidHeader"]
    ELSE parse_headers(raw, i + 1,
            Append(acc, <<trim(SubSeq(raw[i], 1, find_colon(raw[i]) - 1)),
                          trim(SubSeq(raw[i], find_colon(raw[i]) + 1, Len(raw[i])))>>))

\* RtspRequest::parse
parse(raw) ==
    IF Len(raw) = 0 THEN [ok |-> FALSE, headers |-> <<>>, kind |-> "EmptyRequest"]
    ELSE IF Len(split_whitespace(raw[1])) # 3
    THEN [ok |-> FALSE, headers |-> <<>>, kind |-> "InvalidRequestLine"]
    ELSE parse_headers(raw, 2, <<>>)

\* A faulty run() that gives the connection up after a parse error.
AfterParseErrorClose(c) == AfterRun(c)

\* run() after a parse error: the warning is logged and the loop tests the
\* running flag again.
AfterParseError(c) == IF running THEN "idle" ELSE AfterRun(c)

\* run(): a request is read and parsed. A request that parses is handed to
\* handle() with its headers; one that does not is logged. The history keeps
\* the text and what parse made of it.
ReadRequest(c, raw) ==
    /\ pc[c] = "idle"
    /\ call' = [op |-> "parse", conn |-> c, raw |-> raw, ok |-> parse(raw).ok,
                kind |-> parse(raw).kind]
    /\ IF parse(raw).ok
       THEN /\ reqHeaders' = [reqHeaders EXCEPT ![c] = parse(raw).headers]
            /\ UNCHANGED <<pc, loc>>
       ELSE /\ pc' = [pc EXCEPT ![c] = AfterParseError(c)]
            /\ loc' = [loc EXCEPT ![c] = LocalsAt(pc'[c])]
            /\ UNCHANGED reqHeaders
    /\ UNCHANGED <<serverVars, subs, sessions, objs, allocVars, session_ids,
                   resp, createdBy, pushVars, mediaVars, threadVars, callerVars,
                   packetizers, paramVars, configVars, loopVars, lockVars>>

NextParse ==
    \/ ServerStart
    \/ ServerStop
    \/ Worker("c1", RaceSetups, RaceSessionHeaders)
    \/ \E raw \in RawRequests : ReadRequest("c1", raw)

\* One client whose requests are read from their text.
SpecParse == Init /\ [][NextParse]_vars

\* ------------------------------------------------------------- shutdown

shutdownFrame == <<default_path, subs, sessions, objs, allocVars, loc, session_ids,
                   resp, createdBy, pushVars, call, mediaVars, threadVars, callerVars,
                   requestVars, paramVars, configVars, lockVars>>

\* Server::start with a valid bind address: it spawns accept_loop. While the
\* loop of an earlier start still owns the listener, TcpListener::bind fails
\* and start changes nothing.
StartLoop ==
    /\ ~running
    /\ acceptPc \in {"none", "exited"}
    /\ udp' = TRUE
    /\ running' = TRUE
    /\ acceptPc' = "test"
    /\ UNCHANGED <<pc, shutdownFrame>>

\* accept_loop: while running.load(SeqCst)
AcceptLoopTest ==
    /\ acceptPc = "test"
    /\ acceptPc' = IF running THEN "accept" ELSE "exited"
    /\ UNCHANGED <<running, udp, pc, shutdownFrame>>

\* accept_loop: listener.accept() returns a client, and a worker is spawned
\* with a MethodHandler of its own.
AcceptLoopAccept(c) ==
    /\ acceptPc = "accept"
    /\ pc[c] = "closed"
    /\ pc' = [pc EXCEPT ![c] = "accepted"]
    /\ session_ids' = [session_ids EXCEPT ![c] = <<>>]
    /\ createdBy' = [createdBy EXCEPT ![c] = {}]
    /\ acceptPc' = "test"
    /\ UNCHANGED <<serverVars, subs, sessions, objs, allocVars, loc, resp, pushVars, call,
                   mediaVars, threadVars, callerVars, requestVars, paramVars, configVars,
                   lockVars>>

\* accept_loop: listener.accept() finds no client (or fails) and the loop
\* sleeps.
AcceptLoopWouldBlock ==
    /\ acceptPc = "accept"
    /\ acceptPc' = "test"
    /\ UNCHANGED <<running, udp, pc, shutdownFrame>>

\* run(): the first test of the running flag by a worker just spawned.
WorkerEnter(c) ==
    /\ pc[c] = "accepted"
    /\ pc' = [pc EXCEPT ![c] = IF running THEN "idle" ELSE AfterRun(c)]
    /\ UNCHANGED <<running, udp, acceptPc, shutdownFrame>>

\* The steps of the accept loop thread.
AcceptLoop ==
    \/ AcceptLoopTest
    \/ AcceptLoopAccept("c1")
    \/ AcceptLoopWouldBlock

\* The steps a worker takes by itself: everything but waiting in read_line
\* for the client's next request or for the end of the stream.
Serving(c) ==
    \/ WorkerEnter(c)
    \/ /\ pc[c] \notin {"idle", "closed"}
       /\ RequestLoop(c, RaceSetups, RaceSessionHeaders)

NextShutdown ==
    \/ StartLoop
    \/ ServerStop
    \/ AcceptLoop
    \/ WorkerEnter("c1")
    \/ RequestLoop("c1", RaceSetups, RaceSessionHeaders)

\* A server with its accept loop and one client. The accept loop, and a
\* worker that handles a request or cleans up, go on until they are done;
\* nothing makes a client send or hang up, and the blocking read_line has no
\* timeout.
SpecShutdown ==
    Init /\ [][NextShutdown]_vars /\ WF_vars(AcceptLoop) /\ WF_vars(Serving("c1"))

\* ------------------------------------------- fan-out against disconnects

\* The SETUP of a viewer: the default mount's stream over UDP.
ViewerSetups == {r \in RaceSetups : r[1][4] = "stream" /\ r[2] # None}

\* A client that sets one stream up, plays it and hangs up.
Viewer(c) ==
    \/ Accept(c)
    \/ Disconnect(c)
    \/ \E written \in BOOLEAN : WriteResponse(c, written)
    \/ CleanupUnsubscribe(c)
    \/ CleanupRemove(c)
    \/ \E r \in ViewerSetups : SetupBegin(c, r[1], r[2])
    \/ SetupNew(c)
    \/ SetupInsert(c)
    \/ SetupTransport(c)
    \/ SetupSubscribe(c)
    \/ \E hdr \in RaceSessionHeaders : PlayPauseLookup(c, "PLAY", hdr)
    \/ PlayPauseSet(c)

NextViewers ==
    \/ ServerStart
    \/ ServerStop
    \/ \E c \in Conns : Viewer(c)
    \/ PushStart(DEFAULT_MOUNT_PATH, 1)
    \/ PushVisit
    \/ PushFinish

\* Two viewers of the default mount, and the thread that pushes frames.
SpecViewers == Init /\ [][NextViewers]_vars

\* ------------------------------------------------------------ lock view

\* The threads seen as the lock operations and blocking I/O calls the code
\* makes, in order. An instruction is <<"acq", lock, mode>>, <<"rel", lock,
\* mode>> or <<"io", call, "">>; mode "r" is RwLock::read, "w" is
\* RwLock::write or Mutex::lock. One session stands for all: its state and
\* transport locks are the ones every thread meets.

SubscribersLock(m) == IF m = DEFAULT_MOUNT_PATH THEN "subscribers:/stream"
                      ELSE "subscribers:/cam1"
PacketizerLock(m) == IF m = DEFAULT_MOUNT_PATH THEN "packetizer:/stream"
                     ELSE "packetizer:/cam1"

\* A guard that is a temporary: taken and dropped within one expression.
Locked(l, mode) == << <<"acq", l, mode>>, <<"rel", l, mode>> >>

Io(op) == << <<"io", op, "">> >>

\* A faulty unsubscribe_all that asks for the mount table while it holds a
\* subscriber set.
unsubscribe_all_ops_inverted ==
    << <<"acq", SubscribersLock(DEFAULT_MOUNT_PATH), "w">>, <<"acq", "mounts", "r">>,
       <<"rel", "mounts", "r">>, <<"rel", SubscribersLock(DEFAULT_MOUNT_PATH), "w">> >>
    \o Locked(SubscribersLock(<<"/", "cam1">>), "w")

\* MountRegistry::unsubscribe_all: mounts.read() is held over the loop in
\* which Mount::unsubscribe takes session_ids.write() of each mount.
unsubscribe_all_ops ==
    << <<"acq", "mounts", "r">> >>
    \o Locked(SubscribersLock(DEFAULT_MOUNT_PATH), "w")
    \o Locked(SubscribersLock(<<"/", "cam1">>), "w")
    \o << <<"rel", "mounts", "r">> >>

\* MountRegistry::resolve_from_uri: get(path), and when that finds nothing the
\* closure that holds default_path.read() over a second get.
resolve_from_uri_ops(found) ==
    IF found THEN Locked("mounts", "r")
    ELSE Locked("mounts", "r")
         \o << <<"acq", "default_path", "r">> >>
         \o Locked("mounts", "r")
         \o << <<"rel", "default_path", "r">> >>

\* SessionManager::create_session and remove_session: the write, then the
\* read for the log line.
create_session_ops == Locked("sessions", "w") \o Locked("sessions", "r")
remove_session_ops == Locked("sessions", "w") \o Locked("sessions", "r")

\* Session::set_state: the read for the log line, then the write.
set_state_ops == Locked("state", "r") \o Locked("state", "w")

\* MethodHandler::handle for each method, on mount m.
handle_ops(method, m, found) ==
    CASE method = "DESCRIBE" ->
            resolve_from_uri_ops(found) \o Locked(PacketizerLock(m), "w")
            \o Locked(PacketizerLock(m), "w")
      [] method = "SETUP" ->
            resolve_from_uri_ops(found) \o create_session_ops
            \o Locked("transport", "w") \o Locked(SubscribersLock(m), "w")
      [] method = "PLAY" ->
            Locked("sessions", "r") \o set_state_ops \o resolve_from_uri_ops(found)
            \o Locked(PacketizerLock(m), "w") \o Locked(PacketizerLock(m), "w")
      [] method = "PAUSE" -> Locked("sessions", "r") \o set_state_ops
      [] method = "TEARDOWN" -> remove_session_ops \o unsubscribe_all_ops
      [] OTHER -> Locked("sessions", "r")

\* Connection::run for one request: read_line, handle, write_all.
request_ops(method, m, found) ==
    Io("tcp_read") \o handle_ops(method, m, found) \o Io("tcp_write")

\* Connection::run meets the end of the stream, and Connection::cleanup of a
\* connection that created one session.
cleanup_ops ==
    Io("tcp_read") \o unsubscribe_all_ops \o Locked("sessions", "w")

\* A faulty send_frame_to that iterates the subscriber set under its read
\* guard instead of a copy.
send_frame_to_ops_guarded(m) ==
    Locked("mounts", "r") \o Locked(PacketizerLock(m), "w")
    \o << <<"acq", SubscribersLock(m), "r">> >>
    \o Locked("sessions", "r") \o Locked("state", "r") \o Locked("transport", "r")
    \o Io("udp_send_to")
    \o << <<"rel", SubscribersLock(m), "r">> >>

\* Server::send_frame_to on mount m with one subscriber that is served.
send_frame_to_ops(m) ==
    Locked("mounts", "r") \o Locked(PacketizerLock(m), "w")
    \o Locked(SubscribersLock(m), "r")
    \o Locked("sessions", "r") \o Locked("state", "r") \o Locked("transport", "r")
    \o Io("udp_send_to")

\* The requests of the clients: each method, with a URI that names a mount
\* or one that falls back to the default mount.
LockRequests ==
    { <<"DESCRIBE", TRUE>>, <<"SETUP", FALSE>>, <<"PLAY", FALSE>>, <<"PAUSE", TRUE>>,
      <<"TEARDOWN", TRUE>> }

\* What each thread may do next.
Programs(t) ==
    IF t = "worker1"
    THEN { request_ops(r[1], DEFAULT_MOUNT_PATH, r[2]) : r \in LockRequests }
         \cup {cleanup_ops}
    ELSE IF t = "worker2"
    THEN { request_ops("SETUP", DEFAULT_MOUNT_PATH, FALSE), cleanup_ops }
    ELSE IF t = "pusher"
    THEN { send_frame_to_ops(DEFAULT_MOUNT_PATH) }
    ELSE { Locked("mounts", "w"), Locked("default_path", "w") }

\* The threads that hold lock l in mode mode.
Holders(l, mode) == {t \in LockThreads : <<l, mode>> \in Range(holds[t])}

\* The threads queued for a write of lock l.
QueuedWriters(l) ==
    {t \in LockThreads : parked[t] /\ prog[t] # <<>> /\ prog[t][1] = <<"acq", l, "w">>}

\* parking_lot grants a write when nobody holds the lock, and a read when no
\* writer holds it and none is queued for it.
Grantable(t, l, mode) ==
    IF mode = "w" THEN Holders(l, "r") \cup Holders(l, "w") = {}
    ELSE Holders(l, "w") = {} /\ QueuedWriters(l) \ {t} = {}

lockFrame == <<serverVars, subs, sessions, objs, allocVars, pc, loc, session_ids, resp,
               createdBy, pushVars, call, mediaVars, threadVars, callerVars,
               requestVars, paramVars, configVars, loopVars>>

\* The thread starts its next call.
Begin(t) ==
    /\ prog[t] = <<>>
    /\ \E p \in Programs(t) : prog' = [prog EXCEPT ![t] = p]
    /\ UNCHANGED <<holds, parked, lockFrame>>

\* The lock is granted.
Acquire(t) ==
    /\ prog[t] # <<>>
    /\ prog[t][1][1] = "acq"
    /\ Grantable(t, prog[t][1][2], prog[t][1][3])
    /\ holds' = [holds EXCEPT ![t] = Append(@, <<prog[t][1][2], prog[t][1][3]>>)]
    /\ parked' = [parked EXCEPT ![t] = FALSE]
    /\ prog' = [prog EXCEPT ![t] = Tail(@)]
    /\ UNCHANGED lockFrame

\* The lock is not free: the thread queues for it.
Park(t) ==
    /\ prog[t] # <<>>
    /\ prog[t][1][1] = "acq"
    /\ ~parked[t]
    /\ ~Grantable(t, prog[t][1][2], prog[t][1][3])
    /\ parked' = [parked EXCEPT ![t] = TRUE]
    /\ UNCHANGED <<prog, holds, lockFrame>>

\* The guard is dropped.
Release(t) ==
    /\ prog[t] # <<>>
    /\ prog[t][1][1] = "rel"
    /\ holds' = [holds EXCEPT ![t] =
                    SelectSeq(@, LAMBDA g : g # <<prog[t][1][2], prog[t][1][3]>>)]
    /\ prog' = [prog EXCEPT ![t] = Tail(@)]
    /\ UNCHANGED <<parked, lockFrame>>

\* The blocking call returns.
IoReturn(t) ==
    /\ prog[t] # <<>>
    /\ prog[t][1][1] = "io"
    /\ prog' = [prog EXCEPT ![t] = Tail(@)]
    /\ UNCHANGED <<holds, parked, lockFrame>>

\* The steps of thread t.
LockStep(t) ==
    \/ Begin(t)
    \/ Acquire(t)
    \/ Park(t)
    \/ Release(t)
    \/ IoReturn(t)

NextLocks == \E t \in LockThreads : LockStep(t)

\* Two connection workers, a pushing thread and a configuring thread.
SpecLocks == Init /\ [][NextLocks]_vars

\* The threads of the smaller lock view in which progress is checked.
ProgressThreads == {"worker1", "pusher", "admin"}

NextLockProgress == \E t \in ProgressThreads : LockStep(t)

\* A thread that requests a lock queues for it when it is not free, the lock
\* is fair to every thread that keeps requesting it, and a thread that holds
\* a guard reaches the end of the guard's scope. Nothing makes a blocking call
\* return or a thread start another call.
LockFairness ==
    \A t \in ProgressThreads :
        SF_vars(Acquire(t)) /\ WF_vars(Park(t)) /\ WF_vars(Release(t))

\* One connection worker, a pushing thread and a configuring thread.
SpecLockProgress == Init /\ [][NextLockProgress]_vars /\ LockFairness

\* ------------------------------------------ PLAY beside send_frame_to

\* What the worker and the pushing thread leave alone in this view.
raceFrame ==
    <<serverVars, subs, sessions, allocVars, session_ids, createdBy, pushVars,
      rtpHeader, lastSeq, tsSum, callerVars, reqHeaders, paramVars, configVars,
      loopVars, lockVars>>

\* handle_pause on the session found.
PauseSet(c) == pc[c] = "pause_set" /\ PlayPauseSet(c)

\* handle_play: session.set_state(SessionState::Playing), before anything is
\* read from the mount. The history keeps the session, the state it had and
\* the number of packets sent so far.
PlaySetState(c) ==
    /\ pc[c] = "play_set"
    /\ objs' = [objs EXCEPT ![loc[c].sid].state = TargetState("PLAY")]
    /\ pc' = [pc EXCEPT ![c] = "play_seq"]
    /\ call' = [op |-> "play", id |-> loc[c].sid, was |-> objs[loc[c].sid].state,
                mark |-> Len(wire), at |-> None, info |-> None]
    /\ UNCHANGED <<raceFrame, loc, resp, thr, wire, out, frames, packetizers>>

\* handle_play: resolve_from_uri, and mount.next_sequence() under the
\* packetizer's lock, the first argument of format!. Without a mount the
\* response has no RTP-Info.
PlayReadSequence(c) ==
    /\ pc[c] = "play_seq"
    /\ LET id == loc[c].sid
           uri == objs[id].uri
           mount == resolve_from_uri(uri)
           ok == [RtspResponse(200) EXCEPT
                     !.session = Some(session_header_value(id)), !.range = TRUE]
       IN IF mount = None
          THEN /\ Return(c, ok)
               /\ call' = call
          ELSE /\ resp' = [resp EXCEPT ![c] =
                     [ok EXCEPT !.rtp_info =
                         Some([url |-> uri,
                               seq |-> next_sequence(packetizers[mount[1]]),
                               rtptime |-> <<>>])]]
               /\ pc' = [pc EXCEPT ![c] = "play_rtptime"]
               /\ call' = [call EXCEPT !.at = Some(packetizers[mount[1]])]
    /\ UNCHANGED <<raceFrame, objs, loc, thr, wire, out, frames, packetizers>>

\* handle_play: mount.next_rtp_timestamp() under the packetizer's lock taken
\* again, the RTP-Info header and the return.
PlayReadTimestamp(c) ==
    /\ pc[c] = "play_rtptime"
    /\ LET mount == resolve_from_uri(objs[loc[c].sid].uri)
           info == [resp[c].rtp_info[1] EXCEPT
                       !.rtptime = next_rtp_timestamp(packetizers[mount[1]])]
       IN /\ Return(c, [resp[c] EXCEPT !.rtp_info = Some(info)])
          /\ call' = [call EXCEPT !.info = Some([seq |-> info.seq, rtptime |-> info.rtptime])]
    /\ UNCHANGED <<raceFrame, objs, loc, thr, wire, out, frames, packetizers>>

\* send_frame_to on the default mount: the mount is found and mount.packetize
\* runs under the packetizer's lock; the frame makes n packets.
PushFrameBegin(t, n, increment) ==
    /\ thr[t].pc = "idle"
    /\ udp
    /\ MountGet(DEFAULT_MOUNT_PATH) # None
    /\ frames < MaxPushes
    /\ LET r == packetize(packetizers[DEFAULT_MOUNT_PATH], n, increment)
       IN /\ packetizers' = [packetizers EXCEPT ![DEFAULT_MOUNT_PATH] = r.header]
          /\ out' = [packets |-> r.packets, increment |-> increment]
          /\ thr' = [thr EXCEPT ![t] = [NoThread EXCEPT !.pc = "snapshot",
                                                        !.packets = r.packets,
                                                        !.frame = frames + 1]]
    /\ frames' = frames + 1
    /\ UNCHANGED <<raceFrame, objs, pc, loc, resp, call, wire>>

\* The client of connection c, which plays and pauses its sessions.
Listener(c) ==
    \/ \E method \in {"PLAY", "PAUSE"}, hdr \in RaceSessionHeaders :
          PlayPauseLookup(c, method, hdr)
    \/ PauseSet(c)
    \/ PlaySetState(c)
    \/ PlayReadSequence(c)
    \/ PlayReadTimestamp(c)
    \/ WriteResponse(c, TRUE)

\* The thread that pushes frames of one or more packets to the default mount.
Pusher(t) ==
    \/ \E n \in 1..MaxPackets : PushFrameBegin(t, n, <<3000, 0>>)
    \/ SendFrameSnapshot(t)
    \/ SendFrameVisit(t)
    \/ SendFramePacket(t, TRUE)
    \/ SendFrameReturn(t)

NextPlayRace == Listener("c1") \/ Pusher("t1")

\* A client with two sessions on the default mount, and a thread pushing
\* frames to it.
SpecPlayRace == InitPushers /\ [][NextPlayRace]_vars

\* -------------------------------------------------------------- properties

NoDuplicates(s) == \A i, j \in 1..Len(s) : i # j => s[i] # s[j]

\* Session id is in the subscriber list of some registered mount.
Subscribed(sub, id) == \E m \in MountPaths : id \in Range(sub[m])

\* The ids that were issued and have left the session table again.
Gone ==
    {id \in Range(issued) :
        /\ id \notin sessions
        /\ ~\E c \in Conns : pc[c] = "setup_insert" /\ loc[c].sid = id}

\* The session id a Session header names: the text before its first ';',
\* without the blanks around it.
HeaderId(value) ==
    LET semi == IndexOf(value, ";")
        first == IF semi > 0 THEN SubSeq(value, 1, semi - 1) ELSE value
    IN SelectSeq(first, LAMBDA t : t # " ")

\* The optional Session header names a session of the table.
Known(hdr) == IF hdr = None THEN FALSE ELSE HeaderId(hdr[1]) \in sessions

\* The pair client_port=RTP-RTCP of a Transport header, or <<>> when the
\* first such pair spells no two 16-bit ports.
ClientPortPair(header) ==
    LET pairs == {i \in 1..Len(header) :
                    header[i].key = "client_port=" /\ Len(header[i].ports) = 2}
    IN IF pairs = {} THEN <<>>
       ELSE LET p == header[CHOOSE i \in pairs : \A j \in pairs : i <= j].ports
            IN IF p[1] \in 0..U16Max /\ p[2] \in 0..U16Max THEN p ELSE <<>>

\* C1: once a connection's worker has terminated, every session id created
\* by a SETUP on that connection is absent from the SessionManager and from
\* the subscriber list of every registered mount.
C1_DisconnectCleanup ==
    \A c \in Conns :
        pc[c] = "closed" =>
            \A id \in createdBy[c] : id \notin sessions /\ ~Subscribed(subs, id)

\* A worker has ended after cleanup removed two sessions it had created.
C1_Witness ==
    \E c \in Conns :
        /\ pc[c] = "closed"
        /\ Cardinality(createdBy[c]) = 2
        /\ Len(session_ids[c]) = 2

\* C2: a TEARDOWN naming a registered session answers 200 and, when it
\* returns, the session is absent from the SessionManager, from every
\* registered mount's subscriber list and from the connection's created-list;
\* any later PLAY, PAUSE or TEARDOWN with that id, from any connection, is
\* answered 454.
C2_TeardownRemovesEverywhere ==
    [][\A c \in Conns :
          /\ (pc[c] = "td_finish" /\ pc'[c] = "respond") =>
                /\ resp'[c].status = 200
                /\ loc[c].sid \notin sessions'
                /\ ~Subscribed(subs', loc[c].sid)
                /\ loc[c].sid \notin Range(session_ids'[c])
          /\ (/\ pc[c] = "idle"
              /\ loc'[c].method \in {"PLAY", "PAUSE", "TEARDOWN"}
              /\ loc'[c].sid \in Gone) =>
                pc'[c] = "respond" /\ resp'[c].status = 454]_vars

DocumentedTransitions ==
    { <<"Ready", "Playing">>, <<"Paused", "Playing">>, <<"Playing", "Paused">> }

\* C4: the only state transitions of a session are those of the documented
\* lifecycle: it is created Ready, PLAY moves Ready or Paused to Playing and
\* PAUSE moves Playing to Paused; a session that becomes Paused was Playing.
C4_DocumentedLifecycle ==
    [][/\ \A id \in (DOMAIN objs') \ (DOMAIN objs) : objs'[id].state = "Ready"
       /\ \A id \in (DOMAIN objs') \cap (DOMAIN objs) :
             objs'[id].state # objs[id].state =>
                 <<objs[id].state, objs'[id].state>> \in DocumentedTransitions]_vars

FailureStatus(uri, th) ==
    IF /\ MountGet(extract_mount_path(uri)) = None
       /\ (IF default_path = None THEN TRUE ELSE MountGet(default_path[1]) = None)
    THEN 404
    ELSE IF th = None THEN 400
    ELSE IF \E i \in 1..Len(th[1]) : th[1][i].key \in {"RTP/AVP/TCP", "interleaved="}
         THEN 461
    ELSE IF ClientPortPair(th[1]) = <<>> THEN 400
    ELSE 0

\* C7: a SETUP that fails is answered 404 when no mount resolves, else 400
\* when the Transport header is absent, else 461 with an Unsupported header
\* when it contains RTP/AVP/TCP or interleaved=, else 400 when client_port
\* cannot be parsed; then no session is created, no server port allocated,
\* no subscriber list and no created-list changed.
C7_SetupFailurePrecedence ==
    [][\A c \in Conns :
          (pc[c] = "idle" /\ loc'[c].method = "SETUP") =>
              IF FailureStatus(loc'[c].uri, loc'[c].th) = 0
              THEN pc'[c] = "setup_new"
              ELSE /\ pc'[c] = "respond"
                   /\ resp'[c].status = FailureStatus(loc'[c].uri, loc'[c].th)
                   /\ resp'[c].unsupported = (resp'[c].status = 461)
                   /\ resp'[c].session = None /\ resp'[c].transport = None
                   /\ UNCHANGED <<sessions, objs, SESSION_COUNTER, issued,
                                  next_server_port, subs, session_ids>>]_vars

\* A SETUP for which no mount resolves and whose Transport header asks for
\* TCP has been answered 404.
C7_Witness ==
    \E c \in Conns :
        /\ pc[c] = "respond"
        /\ loc[c].method = "SETUP"
        /\ resp[c].status = 404
        /\ loc[c].th # None
        /\ \E i \in 1..Len(loc[c].th[1]) : loc[c].th[1][i].key = "RTP/AVP/TCP"

\* C8: PLAY, PAUSE and TEARDOWN whose Session header is missing, or whose
\* session id (the header value before the first ';') is not registered, are
\* answered 454 and change no session's state, no SessionManager entry and
\* no subscriber list; with a registered id they are not refused.
C8_UnknownSessionRejected ==
    [][\A c \in Conns :
          (pc[c] = "idle" /\ loc'[c].method \in {"PLAY", "PAUSE", "TEARDOWN"}) =>
              IF Known(loc'[c].hdr)
              THEN pc'[c] \in {"play_set", "pause_set", "td_unsub"}
              ELSE /\ pc'[c] = "respond"
                   /\ resp'[c].status = 454
                   /\ UNCHANGED <<sessions, objs, subs, session_ids>>]_vars

\* A TEARDOWN naming an unregistered id has been answered 454 while a
\* session is registered.
C8_Witness ==
    \E c \in Conns :
        /\ pc[c] = "respond"
        /\ loc[c].method = "TEARDOWN"
        /\ loc[c].hdr # None
        /\ resp[c].status = 454
        /\ sessions # {}

\* The positions of handle_setup at which the worker holds the new session.
SetupHolding == {"setup_insert", "setup_transport", "setup_subscribe"}

\* C9: no two sessions share an id, also when SETUPs run concurrently on
\* different connections, and an id once issued is never issued again: the
\* ids issued are pairwise different, an insert never replaces an entry of
\* the table, and two workers never hold the same new session.
C9_SessionIdsUnique ==
    /\ NoDuplicates(issued)
    /\ sessions \subseteq Range(issued)
    /\ \A c \in Conns : pc[c] = "setup_insert" => loc[c].sid \notin sessions
    /\ \A c, d \in Conns :
          (c # d /\ pc[c] \in SetupHolding /\ pc[d] \in SetupHolding) =>
              loc[c].sid # loc[d].sid

\* Two connections are inside create_session at once, each with its new id.
C9_Witness ==
    /\ \A c \in Conns : pc[c] = "setup_insert"
    /\ Len(issued) = 2

\* A TEARDOWN of session id is in progress on some connection.
TeardownInProgress(id) ==
    \E c \in Conns : pc[c] \in {"td_unsub", "td_finish"} /\ loc[c].sid = id

\* The disconnect cleanup of a connection that lists id is in progress.
CleanupInProgress(id) ==
    \E c \in Conns :
        pc[c] \in {"cleanup_unsub", "cleanup_remove"} /\ id \in Range(session_ids[c])

\* C10: each id in a registered mount's subscriber list belongs to a session
\* that is registered in the SessionManager or for which a TEARDOWN or a
\* disconnect cleanup is in progress.
C10_SubscribersRegistered ==
    \A m \in MountPaths :
        \A id \in Range(subs[m]) :
            id \in sessions \/ TeardownInProgress(id) \/ CleanupInProgress(id)

\* C11: a session id appears in the created-list of at most one connection,
\* and at most once in that list.
C11_CreatedListsDisjoint ==
    /\ \A c \in Conns : NoDuplicates(session_ids[c])
    /\ \A c, d \in Conns :
          c # d => Range(session_ids[c]) \cap Range(session_ids[d]) = {}

\* Both connections are open and each lists a session it created.
C11_Witness ==
    \A c \in Conns : pc[c] = "idle" /\ Len(session_ids[c]) = 1

\* C12: after any sequence of subscribe and unsubscribe calls on a mount,
\* from whatever threads, the subscriber list holds each id at most once;
\* subscribe(S) with S present and unsubscribe(S) with S absent leave the
\* list unchanged, subscribe(S) with S absent adds S, and unsubscribe(S)
\* removes S and nothing else.
C12_SubscriptionIdempotent ==
    [][LET m == call'.mount
           S == call'.id
       IN /\ \A n \in MountPaths : NoDuplicates(subs'[n])
          /\ \A n \in MountPaths \ {m} : subs'[n] = subs[n]
          /\ (call'.op = "subscribe" /\ S \in Range(subs[m])) => subs'[m] = subs[m]
          /\ (call'.op = "subscribe" /\ S \notin Range(subs[m])) =>
                /\ Range(subs'[m]) = Range(subs[m]) \cup {S}
                /\ Len(subs'[m]) = Len(subs[m]) + 1
          /\ (call'.op = "unsubscribe" /\ S \notin Range(subs[m])) => subs'[m] = subs[m]
          /\ (call'.op = "unsubscribe" /\ S \in Range(subs[m])) =>
                /\ Range(subs'[m]) = Range(subs[m]) \ {S}
                /\ Len(subs'[m]) = Len(subs[m]) - 1]_vars

\* subscribe was called with an id the mount already listed beside another,
\* and the mount lists two ids.
C12_Witness ==
    /\ call.op = "subscribe"
    /\ call.present
    /\ Len(subs[call.mount]) = 2
    /\ call.id \in Range(subs[call.mount])

\* The successor of a 16-bit sequence number.
Succ16(s) == IF s = U16Max THEN 0 ELSE s + 1

\* C13: each packet a packetizer emits carries the sequence of the packet
\* emitted before it plus 1 modulo 2^16, within a frame and from one frame to
\* the next, and the packetizer's sequence moves once per emitted packet: not
\* at all for a frame without packets.
C13_SequencePerPacket ==
    [][frames' = frames + 1 =>
        LET p == out'.packets
        IN /\ \A i \in 2..Len(p) : p[i].sequence = Succ16(p[i - 1].sequence)
           /\ (p # <<>> /\ lastSeq # None) => p[1].sequence = Succ16(lastSeq[1])
           /\ p # <<>> => rtpHeader'.sequence = Succ16(p[Len(p)].sequence)
           /\ p = <<>> => rtpHeader'.sequence = rtpHeader.sequence]_vars

\* A frame of two packets whose sequence numbers are 65535 and 0, after an
\* earlier packet numbered 65534.
C13_Witness ==
    /\ frames >= 2
    /\ Len(out.packets) = 2
    /\ out.packets[1].sequence = U16Max
    /\ out.packets[2].sequence = 0

\* C14: the packets of one packetize call carry one timestamp, the sum modulo
\* 2^32 of the increments supplied before the call, and every call, also one
\* that yields no packet, adds its increment to the timestamp once, after its
\* packets.
C14_TimestampPerFrame ==
    [][frames' = frames + 1 =>
        LET p == out'.packets
        IN /\ \A i \in 1..Len(p) : p[i].timestamp = tsSum
           /\ rtpHeader'.timestamp = wrapping_add_u64(rtpHeader.timestamp, as_u64(out'.increment))
           /\ as_u32(rtpHeader'.timestamp) = tsSum']_vars

\* A frame of two packets sent after an earlier frame's increment took the
\* timestamp past 2^32: both carry the sum's low 32 bits, 0.
C14_Witness ==
    /\ frames >= 2
    /\ Len(out.packets) = 2
    /\ out.packets[1].timestamp = <<0, 0>>
    /\ out.packets[2].timestamp = <<0, 0>>
    /\ rtpHeader.timestamp[3] = 1

\* a <= b for two u32.
LessEq32(a, b) == a[2] < b[2] \/ (a[2] = b[2] /\ a[1] <= b[1])

\* The sends to session id, in the order they were made.
SentTo(id) == SelectSeq(wire, LAMBDA e : e.sid = id)

\* C15: each subscriber is sent the packets of the mount in increasing
\* sequence order and non-decreasing timestamp order, the packets of one frame
\* next to each other, also when several threads push frames to the mount.
C15_SentInSequenceOrder ==
    \A id \in sessions :
        LET s == SentTo(id)
        IN \A i, j \in 1..Len(s) :
              i < j => /\ s[i].sequence < s[j].sequence
                       /\ LessEq32(s[i].timestamp, s[j].timestamp)
                       /\ s[i].frame <= s[j].frame

\* The sessions of a copied subscriber list that the fan-out serves.
ReachedOf(snap) == {id \in Range(snap) : Reached(sessions, objs, id)}

\* The sends of packet p of frame f to session id, failed ones included.
Sends(id, f, p) ==
    {i \in 1..Len(wire) : /\ wire[i].sid = id
                          /\ wire[i].frame = f
                          /\ wire[i].sequence = p.sequence}

\* C17: send_frame_to returns the number of sessions it reached (subscribed,
\* Playing, with a Transport), whatever the number of packets, and every
\* packet of the frame is handed to udp.send_to once for each of them, also
\* after a send to that session or to another one has failed.
C17_CountsSessionsReached ==
    \A t \in Threads :
        (thr[t].pc = "idle" /\ thr[t].frame > 0) =>
            /\ thr[t].sent = Cardinality(ReachedOf(thr[t].snap))
            /\ thr[t].counted = ReachedOf(thr[t].snap)
            /\ \A id \in ReachedOf(thr[t].snap) :
                  \A k \in 1..Len(thr[t].packets) :
                      Cardinality(Sends(id, thr[t].frame, thr[t].packets[k])) = 1

\* A call that returned 2 for a frame of two packets and two Playing
\* sessions, although the first packet's send to the first session failed.
C17_Witness ==
    \E t \in Threads :
        /\ thr[t].pc = "idle"
        /\ Len(thr[t].packets) = 2
        /\ thr[t].sent = 2
        /\ \E i \in 1..Len(wire) :
              /\ wire[i].frame = thr[t].frame
              /\ wire[i].sid = thr[t].snap[1]
              /\ wire[i].sequence = thr[t].packets[1].sequence
              /\ ~wire[i].ok

\* C16: a session for which SETUP has returned 200 and which a PLAY has set
\* Playing is in the subscriber list a later send_frame_to copies, and a call
\* that starts then and during which no PAUSE, TEARDOWN or disconnect of the
\* session begins hands every packet of the frame to it and counts it.
C16_SubscriptionVisible ==
    /\ pushPc = "fanout" => push.steady \subseteq Range(push.snap)
    /\ (pushPc = "fanout" /\ push.idx > Len(push.snap)) =>
          /\ push.sent = Cardinality(push.counted)
          /\ \A id \in push.steady :
                /\ id \in push.counted
                /\ {d.packet : d \in {e \in delivered : e.sid = id}} = 1..push.npackets
                /\ Cardinality({d \in delivered : d.sid = id}) = push.npackets

\* A call over: it sent both packets of its frame to a session that streamed
\* from the mount throughout, and counted it.
C16_Witness ==
    /\ pushPc = "fanout"
    /\ push.idx > Len(push.snap)
    /\ push.npackets = 2
    /\ push.steady # {}
    /\ push.sent >= 1

\* The RTP port of the k-th pair of calls made one after another.
InTurn(k) ==
    SERVER_PORT_MIN + 2 * (IF k <= PortPairs THEN k - 1 ELSE k - 1 - PortPairs)

\* C18: called one after another on a fresh SessionManager,
\* allocate_server_ports returns (5000,5001), (5002,5003), ... up to
\* (65534,65535), then (5000,5001) again and (5002,5003).
C18_PortsInTurn ==
    ncalls > 0 =>
        /\ lastAlloc # None
        /\ lastAlloc[1].ok
        /\ lastAlloc[1].ports = <<InTurn(ncalls), InTurn(ncalls) + 1>>
        /\ ncalls = 1 => lastAlloc[1].ports = <<5000, 5001>>
        /\ ncalls = PortPairs => lastAlloc[1].ports = <<65534, 65535>>
        /\ ncalls = PortPairs + 1 => lastAlloc[1].ports = <<5000, 5001>>
        /\ ncalls = PortPairs + 2 => lastAlloc[1].ports = <<5002, 5003>>

\* The second call after the end of the range has returned (5002,5003).
C18_Witness ==
    /\ ncalls = PortPairs + 2
    /\ lastAlloc = Some([ok |-> TRUE, ports |-> <<5002, 5003>>])

\* C19: every pair allocate_server_ports returns, whatever the interleaving
\* of its callers, has an even RTP port within 5000..65534 and the RTCP port
\* RTP + 1.
C19_PairsEvenInRange ==
    lastAlloc # None =>
        /\ lastAlloc[1].ok
        /\ lastAlloc[1].ports[1] % 2 = 0
        /\ lastAlloc[1].ports[1] >= SERVER_PORT_MIN
        /\ lastAlloc[1].ports[1] <= SERVER_PORT_MAX
        /\ lastAlloc[1].ports[2] = lastAlloc[1].ports[1] + 1

\* C20: a call whose second fetch, after the reset of the counter, is still
\* beyond SERVER_PORT_MAX returns the PortRangeExhausted error (and the SETUP
\* answers 500 and creates nothing).
C20_ExhaustionReported ==
    [][\A t \in Callers :
          (alloc[t].pc = "refetch" /\ alloc'[t].pc = "idle"
             /\ next_server_port > SERVER_PORT_MAX) => ~lastAlloc'[1].ok]_vars

\* C21: resolve_from_uri returns the mount registered at the URI's path when
\* there is one; otherwise the default mount when a default is set, for any
\* URI; and none when no default is set and the path is not registered.
C21_MountFallback ==
    call.op = "resolve_from_uri" =>
        LET path == extract_mount_path(call.uri)
        IN IF path \in DOMAIN subs THEN call.result = Some(path)
           ELSE IF default_path # None THEN call.result = default_path
           ELSE call.result = None

\* C22: a configured default path names a registered mount.
C22_DefaultRegistered ==
    default_path # None => default_path[1] \in DOMAIN subs

\* The value handle() is to echo: that of the request's first header named
\* CSeq in any case, "0" without one.
ExpectedCSeq(hs) ==
    LET at == {i \in 1..Len(hs) : hs[i][1] \in {"CSeq", "cseq", "CSEQ"}}
    IN IF at = {} THEN "0" ELSE hs[CHOOSE i \in at : \A j \in at : i <= j][2]

\* A step in which the handler of connection c returns its response.
Responds(c) == pc[c] # "respond" /\ pc'[c] = "respond"

\* C23: every response of the handler has one CSeq header, with the value of
\* the request's CSeq header or "0" without one, whatever the method; a
\* method the handler does not know is answered 501, and the sessions, the
\* subscriptions and the port counter stay as they are.
C23_CSeqEchoed ==
    [][\A c \in Conns :
        Responds(c) =>
            /\ resp'[c].cseq = <<ExpectedCSeq(reqHeaders[c])>>
            /\ loc'[c].method \notin KnownMethods =>
                   /\ resp'[c].status = 501
                   /\ UNCHANGED <<sessions, objs, subs, session_ids,
                                  next_server_port, SESSION_COUNTER>>]_vars

C23_Witness ==
    /\ pc["c1"] = "respond"
    /\ loc["c1"].method = "options"
    /\ resp["c1"].status = 501
    /\ resp["c1"].cseq = <<"2">>
    /\ sessions # {}

\* C24: GET_PARAMETER is answered 200 and changes no session, no entry of
\* the session table and no subscription; the answer has a Session header,
\* the id, exactly when the request's Session header names a session of the
\* table.
C24_GetParameterReadOnly ==
    [][\A c \in Conns :
        (Responds(c) /\ loc'[c].method = "GET_PARAMETER") =>
            /\ resp'[c].status = 200
            /\ UNCHANGED <<sessions, objs, subs, session_ids>>
            /\ resp'[c].session # None <=> Known(loc'[c].hdr)
            /\ Known(loc'[c].hdr) =>
                   resp'[c].session = Some(HeaderId(loc'[c].hdr[1]))]_vars

C24_Witness ==
    /\ pc["c1"] = "respond"
    /\ loc["c1"].method = "GET_PARAMETER"
    /\ loc["c1"].hdr = Some(FormatId(0) \o <<" ", ";", "timeout=60">>)
    /\ resp["c1"].session = Some(FormatId(0))
    /\ objs[FormatId(0)].state = "Playing"

\* The mount that session id is subscribed to.
MountOf(id) == CHOOSE m \in DOMAIN subs : id \in Range(subs[m])

\* The response connection c holds is the 200 answer to a PLAY.
PlayAnswered(c) ==
    pc[c] = "respond" /\ loc[c].method = "PLAY" /\ resp[c].status = 200

IsFuA(packet) == packet.payload[1] % 32 = 28

\* The S and E bits of the FU header.
SBit(packet) == packet.payload[2] \div 128 = 1
EBit(packet) == (packet.payload[2] \div 64) % 2 = 1

RECURSIVE Regroup(_)
\* The packets of a frame as a receiver groups them: an FU-A packet opens a
\* group that its first E bit closes, any other packet is a group.
Regroup(packets) ==
    IF packets = <<>> THEN <<>>
    ELSE IF IsFuA(packets[1])
         THEN LET ends == {j \in 1..Len(packets) : IsFuA(packets[j]) /\ EBit(packets[j])}
                  j == IF ends = {} THEN Len(packets)
                       ELSE CHOOSE e \in ends : \A f \in ends : e <= f
              IN <<SubSeq(packets, 1, j)>> \o Regroup(SubSeq(packets, j + 1, Len(packets)))
         ELSE <<SubSeq(packets, 1, 1)>> \o Regroup(Tail(packets))

RECURSIVE FragmentBytes(_)
\* The fragment payloads of a group of FU-A packets, one behind another.
FragmentBytes(group) ==
    IF group = <<>> THEN <<>>
    ELSE SubSeq(group[1].payload, 3, Len(group[1].payload)) \o FragmentBytes(Tail(group))

\* The NAL unit a receiver rebuilds from a group: a single-NAL payload as it
\* is, FU-A fragments behind the header made of the indicator's F and NRI
\* bits and the FU header's type.
Rejoin(group) ==
    IF IsFuA(group[1])
    THEN <<((group[1].payload[1] \div 32) * 32) + (group[1].payload[2] % 32)>>
         \o FragmentBytes(group)
    ELSE group[1].payload

\* A packetize call on frame bytes has returned.
Packetized == call.op = "packetize" /\ frames > 0

\* C26: a NAL longer than the MTU leaves as two or more FU-A packets of at
\* most 12 + MTU bytes; S is set on the first only and E on the last only;
\* the FU indicator is (NAL header & 0x60) | 28 and the low five bits of the
\* FU header are the NAL type; the fragment payloads in order are the NAL's
\* bytes after the first; and the marker is set exactly on the last packet
\* of the frame's last NAL.
C26_FuAFragments ==
    Packetized =>
        LET groups == Regroup(out.packets)
        IN /\ Len(groups) = Len(out.nals)
           /\ \A k \in 1..Len(out.nals) :
                Len(out.nals[k]) > DEFAULT_MTU =>
                    /\ Len(groups[k]) >= 2
                    /\ \A i \in 1..Len(groups[k]) :
                        LET bytes == groups[k][i].payload
                        IN /\ 12 + Len(bytes) <= 12 + DEFAULT_MTU
                           /\ bytes[1] = ((out.nals[k][1] % 128) - (out.nals[k][1] % 32)) + 28
                           /\ bytes[2] % 32 = out.nals[k][1] % 32
                           /\ SBit(groups[k][i]) <=> i = 1
                           /\ EBit(groups[k][i]) <=> i = Len(groups[k])
                    /\ FragmentBytes(groups[k]) = Tail(out.nals[k])
           /\ \A i \in 1..Len(out.packets) :
                out.packets[i].marker <=> i = Len(out.packets)

\* A NAL of 2 * MTU - 2 bytes has left as three fragments.
C26_Witness ==
    /\ Packetized
    /\ Len(out.nals) = 1
    /\ Len(out.nals[1]) = 2 * DEFAULT_MTU - 2
    /\ Len(out.packets) = 3
    /\ ~SBit(out.packets[2]) /\ ~EBit(out.packets[2])
    /\ out.packets[3].marker

\* The positions at which the bytes 00 00 01 stand.
CodeEnds(data) == {i \in 1..Len(data) : StartsAt(data, i, <<0, 0, 1>>)}

\* The first byte of the start code whose 00 00 01 stands at i: the zero
\* byte before it belongs to the code.
CodeStart(data, i) == IF i > 1 /\ data[i - 1] = 0 THEN i - 1 ELSE i

RECURSIVE RunsFrom(_, _)
\* The byte runs behind the start codes of codes, in order: each from the
\* byte after its code to the byte before the next code, or to the end.
RunsFrom(data, codes) ==
    IF codes = {} THEN <<>>
    ELSE LET i == CHOOSE c \in codes : \A d \in codes : c <= d
             later == codes \ {i}
             last == IF later = {} THEN Len(data)
                     ELSE CodeStart(data, CHOOSE c \in later : \A d \in later : c <= d) - 1
         IN <<SubSeq(data, i + 3, last)>> \o RunsFrom(data, later)

FirstOfType(nals, type) ==
    LET at == {i \in 1..Len(nals) : nals[i][1] % 32 = type}
    IN IF at = {} THEN None ELSE Some(nals[CHOOSE i \in at : \A j \in at : i <= j])

\* The fmtp line without a parameter set.
BareFmtp == <<"a=fmtp:", PayloadType, " packetization-mode=1">>

\* sdp_attributes has returned.
SdpRead == call.op = "sdp_attributes"

\* C28 as stated: until SPS and PPS have been captured the fmtp line carries
\* only packetization-mode=1.
C28_BareUntilCaptured ==
    (SdpRead /\ (sps = None \/ pps = None)) => call.result[2] = BareFmtp

\* C28: the SPS held is the first NAL of type 7 and the PPS held the first of
\* type 8 over all packetize calls; sdp_attributes returns rtpmap, fmtp and
\* control in this order; the fmtp line carries profile-level-id exactly when
\* an SPS of four bytes or more is held, sprop-parameter-sets exactly when an
\* SPS and a PPS are held, and only packetization-mode=1 while no SPS is held.
C28_FirstWinsAndFmtp ==
    /\ sps = FirstOfType(nalsSeen, 7)
    /\ pps = FirstOfType(nalsSeen, 8)
    /\ SdpRead =>
        /\ Len(call.result) = 3
        /\ call.result[1][1] = "a=rtpmap:"
        /\ call.result[2][1] = "a=fmtp:"
        /\ call.result[3] = <<"a=control:track1">>
        /\ SubSeq(call.result[2], 1, 3) = BareFmtp
        /\ (";profile-level-id=" \in Range(call.result[2]))
              <=> (sps # None /\ Len(sps[1]) >= 4)
        /\ (";sprop-parameter-sets=" \in Range(call.result[2]))
              <=> (sps # None /\ pps # None)
        /\ sps = None => call.result[2] = BareFmtp

\* Both parameter sets are held, a later SPS has been seen, and the SDP is
\* read.
C28_Witness ==
    /\ SdpRead
    /\ sps = Some(SpsA)
    /\ pps = Some(PpsA)
    /\ SpsB \in Range(nalsSeen) /\ PpsB \in Range(nalsSeen)
    /\ ";sprop-parameter-sets=" \in Range(call.result[2])
    /\ ";profile-level-id=" \in Range(call.result[2])

\* The bind address spells an IP address, a ':' and a port from 1 to 65535.
HostAndPort(addr) ==
    /\ Len(addr) = 3
    /\ addr[1] \in {"127.0.0.1", "0.0.0.0", "[::1]"}
    /\ addr[2] = ":"
    /\ addr[3] >= 1 /\ addr[3] <= 65535

\* A step in which start returns.
Starts == call' # call /\ call'.op = "start"

\* C29: start on a running server returns AlreadyRunning; start with a bind
\* address that is no host:port or has port 0 returns InvalidBindAddress; both
\* leave the running flag and the UDP sender as they are and spawn no accept
\* loop; a start that succeeds sets the running flag, and only stop clears
\* it.
C29_StartRejections ==
    [][/\ (Starts /\ running) =>
            /\ call'.result = "AlreadyRunning"
            /\ UNCHANGED <<running, udp>> /\ ~call'.spawned
       /\ (Starts /\ ~running /\ ~HostAndPort(bind_addr)) =>
            /\ call'.result = "InvalidBindAddress"
            /\ UNCHANGED <<running, udp>> /\ ~call'.spawned
       /\ (Starts /\ call'.result = "Ok") => running'
       /\ (running /\ ~running') => call'.op = "stop"]_vars

\* start has rejected port 0 on a server never started.
C29_Witness ==
    /\ call.op = "start"
    /\ call.result = "InvalidBindAddress"
    /\ bind_addr = <<"127.0.0.1", ":", 0>>
    /\ ~running /\ ~udp

\* The errors send_rtp_packet reports before it sends.
SendErrors == {"NotStarted", "SessionNotFound", "SessionNotPlaying", "TransportNotConfigured"}

\* A step in which send_rtp_packet returns.
SendReturns == call' # call /\ call'.op = "send_rtp_packet"

\* C30: send_rtp_packet returns NotStarted without a UDP sender, else
\* SessionNotFound for an id that is not registered, else SessionNotPlaying for
\* a session that is Ready or Paused, else TransportNotConfigured for a session
\* without a Transport; with any of these errors nothing is sent and no state
\* changes.
C30_SendErrorOrder ==
    [][SendReturns =>
         LET id == call'.id
             result == call'.result
         IN /\ ~udp => result = "NotStarted"
            /\ (udp /\ id \notin sessions) => result = "SessionNotFound"
            /\ (udp /\ id \in sessions /\ objs[id].state \in {"Ready", "Paused"}) =>
                  result = "SessionNotPlaying"
            /\ (udp /\ id \in sessions /\ objs[id].state = "Playing"
                    /\ objs[id].transport = None) =>
                  result = "TransportNotConfigured"
            /\ result \in SendErrors => (call'.sent = {} /\ UNCHANGED sendFrame)]_vars

\* send_rtp_packet has met a Playing session whose SETUP has not stored its
\* Transport yet.
C30_Witness ==
    /\ call.op = "send_rtp_packet"
    /\ call.result = "TransportNotConfigured"
    /\ call.id \in sessions
    /\ objs[call.id].state = "Playing"
    /\ objs[call.id].transport = None

\* A step in which send_frame_to returns.
SendFrameReturns == call' # call /\ call'.op = "send_frame_to"

\* C31: send_frame_to returns NotStarted on a server without UDP sender and
\* MountNotFound for a path without a mount, whatever the default mount; with
\* either error no packetizer advances and nothing is sent.
C31_SendFrameErrors ==
    [][SendFrameReturns =>
         /\ ~udp => call'.result = "NotStarted"
         /\ (udp /\ call'.path \notin DOMAIN subs) => call'.result = "MountNotFound"
         /\ call'.result \in {"NotStarted", "MountNotFound"} =>
               /\ UNCHANGED <<packetizers, rtpHeader, delivered, wire>>
               /\ call'.sent = {} /\ call'.count = 0]_vars

\* send_frame_to has found no mount at a path while the default mount has a
\* subscriber that is playing.
C31_Witness ==
    /\ call.op = "send_frame_to"
    /\ call.result = "MountNotFound"
    /\ default_path = Some(DEFAULT_MOUNT_PATH)
    /\ Served(DEFAULT_MOUNT_PATH) # {}

\* The request line has other than three words, or a header line no colon.
Malformed(raw) ==
    \/ Cardinality({i \in 1..Len(raw[1]) : raw[1][i] # " "}) # 3
    \/ \E i \in 2..Len(raw) : ":" \notin Range(raw[i])

\* A step in which run() has read and parsed a request.
ParseReturns == call' # call /\ call'.op = "parse"

\* C32: a request with a malformed request line or a header line without a
\* colon gets no response and changes no session, subscription or port; on a
\* running server the worker stays in its request loop with the sessions it
\* has created, so that the next request is handled as it would have been.
C32_ParseFailureSkipped ==
    [][(ParseReturns /\ Malformed(call'.raw)) =>
          /\ ~call'.ok
          /\ UNCHANGED <<resp, sessions, objs, subs, allocVars, session_ids, createdBy,
                         reqHeaders, serverVars>>
          /\ running => UNCHANGED <<pc, loc>>]_vars

\* After a header line without a colon, the next request of the connection
\* has been answered with 200.
C32_Witness ==
    /\ call.op = "parse"
    /\ call.kind = "InvalidHeader"
    /\ pc["c1"] = "respond"
    /\ resp["c1"].status = 200

\* No worker is left, and no session is registered or subscribed.
Quiescent ==
    /\ \A c \in Conns : pc[c] = "closed"
    /\ sessions = {}
    /\ \A m \in DOMAIN subs : subs[m] = <<>>

\* C33: once stop has cleared the running flag, no further connection is
\* accepted, and eventually the accept loop has exited and every worker has
\* left its loop and cleaned up, so that no session is registered or
\* subscribed (unless the server is started again first).
C33_ShutdownCompletes ==
    /\ [][~running => \A c \in Conns : pc[c] = "closed" => pc'[c] = "closed"]_vars
    /\ (udp /\ ~running) ~> (running \/ (acceptPc = "exited" /\ Quiescent))

\* The sessions created on connection c that are registered or subscribed.
Remaining(c) ==
    createdBy[c] \cap (sessions \cup UNION {Range(subs[m]) : m \in DOMAIN subs})

\* C33, for the threads that get to test the flag: while the flag is clear the
\* accept loop exits at its next test and does so eventually, and a worker
\* that is entering its loop, handling a request or cleaning up while the flag
\* is clear eventually ends with none of the sessions created on its
\* connection registered or subscribed (unless the server is started again
\* first).
C33_FlagTestersLeave ==
    /\ [][(~running /\ acceptPc = "test") => acceptPc' \in {"test", "exited"}]_vars
    /\ (udp /\ ~running) ~> (acceptPc = "exited")
    /\ \A c \in Conns :
          (udp /\ ~running /\ pc[c] \notin {"idle", "closed"})
             ~> (running \/ (pc[c] = "closed" /\ Remaining(c) = {}))

\* A stopped server whose client had set up a session is left with no accept
\* loop, no worker and no session.
C33_Witness ==
    /\ udp /\ ~running
    /\ acceptPc = "exited"
    /\ createdBy["c1"] # {}
    /\ Quiescent

\* A step in which send_frame_to visits the next id of its snapshot.
Visits == pushPc = "fanout" /\ push'.idx = push.idx + 1

\* C34: the sessions a disconnect cleanup removes from the SessionManager are
\* by then subscribed to no mount; a send_frame_to that visits an id of its
\* snapshot whose session is no longer registered sends nothing for it and
\* does not count it, and it sends every packet to, and counts, each id it
\* visits whose session is registered, playing and has a transport.
C34_UnsubscribedThenRemovedAndSkipped ==
    [][/\ \A c \in Conns :
             (pc[c] = "cleanup_remove" /\ pc'[c] = "closed") =>
                /\ sessions' = sessions \ Range(session_ids[c])
                /\ \A id \in Range(session_ids[c]), m \in DOMAIN subs :
                      id \notin Range(subs[m])
       /\ (Visits /\ push.snap[push.idx] \notin sessions) =>
             /\ delivered' = delivered
             /\ push'.sent = push.sent
             /\ push'.counted = push.counted
       /\ (Visits /\ Reached(sessions, objs, push.snap[push.idx])) =>
             /\ delivered' = delivered \cup SendsTo(objs, push.snap[push.idx], push.npackets)
             /\ push'.sent = push.sent + 1]_vars

\* A send_frame_to has passed an id of its snapshot whose session a cleanup
\* had removed, without sending to it or counting it, and has served another.
C34_Witness ==
    /\ pushPc = "fanout"
    /\ \E i, j \in 1..Len(push.snap) :
          /\ i < push.idx /\ j < push.idx
          /\ push.snap[i] \notin sessions
          /\ push.snap[i] \notin push.counted
          /\ \A d \in delivered : d.sid # push.snap[i]
          /\ \A m \in DOMAIN subs : push.snap[i] \notin Range(subs[m])
          /\ push.snap[j] \in push.counted
          /\ \E d \in delivered : d.sid = push.snap[j]

\* The thread is inside a blocking call: UDP send_to, TCP read or TCP write.
InIo(t) == prog[t] # <<>> /\ prog[t][1][1] = "io"

\* C35: a thread that is performing a UDP send_to, a TCP read or a TCP write
\* holds no lock.
C35_NoLockAcrossIo == \A t \in LockThreads : InIo(t) => holds[t] = <<>>

\* The pushing thread is in send_to and a worker in write_all while the other
\* worker holds the session table.
C35_Witness ==
    /\ InIo("pusher") /\ prog["pusher"][1][2] = "udp_send_to"
    /\ InIo("worker1") /\ prog["worker1"][1][2] = "tcp_write"
    /\ <<"sessions", "w">> \in Range(holds["worker2"])

\* The thread requests a lock.
Requesting(t) == prog[t] # <<>> /\ prog[t][1][1] = "acq"

\* The thread requests a lock that cannot be granted now.
Blocked(t) == Requesting(t) /\ ~Grantable(t, prog[t][1][2], prog[t][1][3])

\* The threads that stand in the way of the request of t.
BlockersOf(t) ==
    LET l == prog[t][1][2]
    IN IF prog[t][1][3] = "w" THEN (Holders(l, "r") \cup Holders(l, "w"))
       ELSE Holders(l, "w") \cup (QueuedWriters(l) \ {t})

\* The locks of the subscriber sets.
SubscriberLocks == {SubscribersLock(m) : m \in MountPaths}

\* C36: a thread holds at most two locks, and two only as default-path then
\* mount-table or mount-table then subscriber-set; no set of threads exists in
\* which each waits for a lock that another of the set stands in the way of;
\* and every thread that requests a lock obtains it.
C36_NoDeadlock ==
    /\ [](\A t \in ProgressThreads :
            /\ Len(holds[t]) <= 2
            /\ Len(holds[t]) = 2 =>
                  \/ holds[t][1][1] = "default_path" /\ holds[t][2][1] = "mounts"
                  \/ holds[t][1][1] = "mounts" /\ holds[t][2][1] \in SubscriberLocks)
    /\ [](\A D \in (SUBSET ProgressThreads) \ {{}} :
            ~(\A t \in D : Blocked(t) /\ BlockersOf(t) \cap D # {}))
    /\ \A t \in ProgressThreads :
          /\ (Requesting(t) /\ holds[t] = <<>>) ~> (holds[t] # <<>>)
          /\ (Requesting(t) /\ Len(holds[t]) = 1) ~> (Len(holds[t]) = 2)

\* A worker that holds the mount table is queued for a subscriber set the
\* pushing thread is reading, while the configuring thread is queued for the
\* mount table.
C36_Witness ==
    /\ parked["worker1"] /\ holds["worker1"] = << <<"mounts", "r">> >>
    /\ parked["admin"] /\ prog["admin"][1] = <<"acq", "mounts", "w">>
    /\ holds["pusher"] = << <<SubscribersLock(DEFAULT_MOUNT_PATH), "r">> >>

\* C37: every session registered in the SessionManager has its Transport set,
\* and send_rtp_packet never returns TransportNotConfigured.
C37_RegisteredHasTransport ==
    /\ \A id \in sessions : objs[id].transport # None
    /\ call.op = "send_rtp_packet" => call.result # "TransportNotConfigured"

\* A Transport that handle_setup has stored in a registered session stays as
\* it is while the session is registered.
C37_StoredTransportKept ==
    [][\A id \in sessions \cap sessions' :
          objs[id].transport # None => objs'[id].transport = objs[id].transport]_vars

\* The sends to the session of the last PLAY since it became Playing.
SentSincePlay ==
    SelectSeq(SubSeq(wire, call.mark + 1, Len(wire)), LAMBDA e : e.sid = call.id)

\* A PLAY of a session that was not Playing has read seq and rtptime.
Announced == call.op = "play" /\ call.was # "Playing" /\ call.info # None

\* u16 sequence number a comes before b.
Precedes(a, b) == ((b - a + Limb) % Limb) \in 1..(Limb \div 2 - 1)

\* C38: the seq and rtptime of a PLAY answered beside send_frame_to are read
\* from one packetizer state, they are the sequence number and timestamp of
\* the first packet sent to the session after it became Playing, and no packet
\* sent to it since then has a sequence number before seq.
C38_RtpInfoMatchesDelivery ==
    Announced =>
        /\ call.info[1].rtptime = next_rtp_timestamp(call.at[1])
        /\ SentSincePlay # <<>> =>
              /\ SentSincePlay[1].sequence = call.info[1].seq
              /\ SentSincePlay[1].timestamp = call.info[1].rtptime
        /\ \A i \in 1..Len(SentSincePlay) :
              ~Precedes(SentSincePlay[i].sequence, call.info[1].seq)

\* C38, first part alone: seq and rtptime come from one packetizer state.
C38_OneState ==
    Announced => call.info[1].rtptime = next_rtp_timestamp(call.at[1])

\* C38, last part alone: no packet before the announced seq.
C38_NoneBefore ==
    Announced => \A i \in 1..Len(SentSincePlay) :
                    ~Precedes(SentSincePlay[i].sequence, call.info[1].seq)

\* A step of the disconnect cleanup of connection c.
CleanupStep(c) ==
    /\ pc[c] \in {"cleanup_unsub", "cleanup_remove"}
    /\ pc'[c] # pc[c] \/ loc'[c] # loc[c]

\* C39: a step of a connection's disconnect cleanup removes from the session
\* table and from the subscriber lists only ids of sessions created on that
\* connection, also when ids of its list were torn down from another
\* connection before.
C39_CleanupOwnSessionsOnly ==
    [][\A c \in Conns :
          CleanupStep(c) =>
              /\ sessions \ sessions' \subseteq createdBy[c]
              /\ \A m \in DOMAIN subs :
                    Range(subs[m]) \ Range(subs'[m]) \subseteq createdBy[c]
              /\ \A id \in sessions' : objs'[id] = objs[id]]_vars

\* The cleanup of c1 has gone through its list, which holds an id that a
\* TEARDOWN on c2 has removed, while a session of c2 is registered and
\* subscribed.
C39_Witness ==
    /\ pc["c1"] = "cleanup_remove"
    /\ \E id \in Range(session_ids["c1"]) : id \notin sessions
    /\ \E id \in createdBy["c2"] \cap sessions : \E m \in DOMAIN subs : id \in Range(subs[m])

\* C40: a call of allocate_server_ports never returns a pair that a call
\* which ended while it was running has returned.
C40_OverlappingPairsDiffer ==
    lastAlloc # None => lastAlloc[1].ports \notin call.overlapped
====
